---- MODULE Spec2Model ----
(***************************************************************************)
(* State-machine model of the Qgis2threejs plugin: the deduplicating data  *)
(* managers (datamanager.py), the export dialog (qgis2threejsdialog.py)    *)
(* and the embedded view (q3dview.py).                                     *)
(***************************************************************************)
EXTENDS Integers, Sequences, FiniteSets, TLC

(***************************************************************************)
(* Bounds of the model.                                                    *)
(***************************************************************************)
\* direct index requests are accepted while the managers together hold fewer entries
MaxEntries == 2

(***************************************************************************)
(* Program constants (datamanager.py).                                     *)
(***************************************************************************)
IMG_IMAGE_FILE == 1
IMG_CANVAS_IMAGE == 2
IMG_MAP_IMAGE == 3
IMG_LAYER_IMAGE == 4

MESH_LAMBERT == 0
MESH_PHONG == 1
LINE_BASIC == 2
SPRITE == 3
WIREFRAME == 10
MESH_LAMBERT_SMOOTH == 0
MESH_LAMBERT_FLAT == 11
MAT_CANVAS_IMAGE == 20
MAT_MAP_IMAGE == 21
MAT_LAYER_IMAGE == 22
MAT_IMAGE_FILE == 23

\* ERROR_COLOR = "0"; colour strings are sequences of characters
ERROR_COLOR == <<"0">>

(***************************************************************************)
(* Inputs: the small sets the operations' arguments are drawn from.        *)
(***************************************************************************)
ImagePaths == {"tex.png", "lost.png", "bad.png"}
ModelPaths == {"tree.dae", "models", "gone.json"}
ModelTypes == {"JSON", "COLLADA"}
\* (width, height, extent) of a map or layer image
MapGeoms == {<<4, 3, "E1">>}
LayerIdSets == {<<"L1">>}
Colors == {<<"0", "x", "f", "f">>, <<"r", "e", "d">>, <<"#", "f", "f">>}
Opacities == {0, 1}

\* os.path.exists / os.path.isfile of the paths above
PathKind(path) ==
  IF path \in {"tex.png", "bad.png", "tree.dae"} THEN "file"
  ELSE IF path = "models" THEN "dir"
  ELSE "none"

\* whether QImage can read an image out of the file: "bad.png" is a regular file
\* that holds no image data
Decodable(path) == path # "bad.png"

\* the text of a model file, character by character
FileData(path) == <<"a", "\\", "'", "\t", "\r", "\n">>

VARIABLES
  imageList,      \* ImageManager._list
  materialList,   \* MaterialManager._list
  modelList,      \* ModelManager._list
  writtenCount,   \* MaterialManager.writtenCount
  collada,        \* ModelManager._collada
  matOut,         \* the stream MaterialManager.write writes to
  last,           \* what the most recent operation returned, wrote and logged
  hist            \* history: the index requests made so far

dmVars == <<imageList, materialList, modelList, writtenCount, collada, matOut, last, hist>>

VARIABLES
  _settings,        \* Qgis2threejsDialog._settings, the settings mapping
  cbox,             \* current index of comboBox_Template
  templateType,     \* Qgis2threejsDialog.templateType
  treeCurrent,      \* treeWidget.currentItem()
  hidden,           \* the hidden flag of each top-level tree item
  currentItem,      \* Qgis2threejsDialog.currentItem
  currentPage,      \* Qgis2threejsDialog.currentPage
  pageProps,        \* what currentPage.properties() returns: the page's widgets
  outputFilename,   \* text of lineEdit_OutputFilename
  lastTreeItemData, \* Qgis2threejsDialog.lastTreeItemData
  runEnabled,       \* pushButton_Run is enabled
  settingsVisible,  \* toolButton_Settings is visible
  progressVisible,  \* progressBar is visible
  persisted,        \* QSettings: the stored lastTemplate and lastControls
  result,           \* "open" while the dialog runs, then "accepted" or "rejected"
  pc,               \* "idle", or "exporting" while run() is inside the exporter
  savedFile,        \* the settings file the latest saveSettings wrote
  event             \* history: the handler that ran last and what it was given

dlgVars ==
  <<_settings, cbox, templateType, treeCurrent, hidden, currentItem, currentPage,
    pageProps, outputFilename, lastTreeItemData, runEnabled, settingsVisible,
    progressVisible, persisted, result, pc, savedFile, event>>

VARIABLES
  viewState,        \* Q3DView: "new", "loading" (setUrl called) or "loaded"
  _enabled,         \* Q3DView._enabled
  isViewer,         \* Q3DView.isViewer
  layerList,        \* iface.controller.settings.getLayerList()
  calls             \* the calls the latest pageLoaded made, in order

viewVars == <<viewState, _enabled, isViewer, layerList, calls>>

VARIABLES
  demArgs,          \* calculateDEMSize: [canvasSize, sizeLevel, roughening]
  demSize           \* None, or <<[scaled, size]>>: the QSize returned as <<width, height>>
                    \* and the width and height after the scale step

demVars == <<demArgs, demSize>>

VARIABLES
  mapSettings,      \* the QgsMapSettings and the other arguments of MapTo3D(...)
  mapTo3d,          \* None, <<"MapTo3D", the object>> or <<"ZeroDivisionError">>
  transformed,      \* None or <<point, result>> of the latest transform call
  flatValue,        \* FlatDEMProvider.value
  samples           \* None or <<width, height, list>> of the latest read call

m3dVars == <<mapSettings, mapTo3d, transformed, flatValue, samples>>

VARIABLES
  exportSettings,   \* ImageManager.exportSettings: [mapSettings], the shared QgsMapSettings
  renders           \* the renderedImage calls of the latest image operation, in order

rndVars == <<exportSettings, renders>>

coreVars == <<demVars, m3dVars, rndVars>>

\* everything outside the data managers but the map settings they render with
quietVars == <<dlgVars, viewVars, demVars, m3dVars>>

uiVars == <<dlgVars, viewVars, coreVars>>

(***************************************************************************)
(* Helpers.                                                                *)
(***************************************************************************)
Range(s) == {s[i] : i \in 1..Len(s)}

EmptyDict == [k \in {} |-> 0]

\* list.index(data): the position of the first equal element, from 0
ListIndex(list, data) ==
  (CHOOSE i \in 1..Len(list) : list[i] = data /\ \A j \in 1..(i - 1) : list[j] # data) - 1

(***************************************************************************)
(* DataManager._index: the index of data, appended when not in the list.   *)
(***************************************************************************)
\* _index without the lookup: every request appends
_index_nolookup(list, data) ==
  [index |-> Len(list), list |-> Append(list, data), data |-> data]

\* _index inserting a new entry at the head of the list
_index_prepend(list, data) ==
  IF data \in Range(list)
  THEN [index |-> ListIndex(list, data), list |-> list, data |-> data]
  ELSE [index |-> 0, list |-> <<data>> \o list, data |-> data]

\* the result names the index returned, the list afterwards and the data asked for
_index(list, data) ==
  IF data \in Range(list)
  THEN [index |-> ListIndex(list, data), list |-> list, data |-> data]
  ELSE [index |-> Len(list), list |-> Append(list, data), data |-> data]

count(list) == Len(list)

(***************************************************************************)
(* History of index requests (not program state).                          *)
(***************************************************************************)
Note(h, mgr, data, index) ==
  [issued |-> h.issued \cup {<<mgr, data, index>>},
   seen |-> [h.seen EXCEPT ![mgr] = IF data \in Range(@) THEN @ ELSE Append(@, data)]]

RECURSIVE NoteAll(_, _, _)
NoteAll(h, mgr, reqs) ==
  IF reqs = <<>> THEN h
  ELSE NoteAll(Note(h, mgr, reqs[1][1], reqs[1][2]), mgr, Tail(reqs))

NoLast == [op |-> "none", mgr |-> "none", data |-> <<>>, ret |-> -1, before |-> -1,
           fresh |-> FALSE, out |-> <<>>, log |-> <<>>]

(***************************************************************************)
(* ImageManager: descriptors and index requests.                           *)
(***************************************************************************)
imageIndex(list, path) == _index(list, <<IMG_IMAGE_FILE, path>>)

canvasImageIndex(list, transp_background) ==
  _index(list, <<IMG_CANVAS_IMAGE, transp_background>>)

mapImageIndex(list, width, height, extent, transp_background) ==
  _index(list, <<IMG_MAP_IMAGE, <<width, height, extent, transp_background>>>>)

layerImageIndex(list, layerids, width, height, extent, transp_background) ==
  _index(list, <<IMG_LAYER_IMAGE, <<layerids, width, height, extent, transp_background>>>>)

\* room for one more direct index request
Room == Len(imageList) + Len(materialList) + Len(modelList) < MaxEntries

\* a direct index request on manager mgr, whose list is `list`
Requested(mgr, op, list, r) ==
  /\ last' = [NoLast EXCEPT !.op = op, !.mgr = mgr, !.data = r.data, !.ret = r.index,
                            !.before = Len(list),
                            !.fresh = r.data \notin Range(hist.seen[mgr])]
  /\ hist' = Note(hist, mgr, r.data, r.index)

ImageIndex(path) ==
  /\ Room
  /\ LET r == imageIndex(imageList, path) IN
       /\ imageList' = r.list
       /\ Requested("image", "imageIndex", imageList, r)
  /\ UNCHANGED <<uiVars, materialList, modelList, writtenCount, collada, matOut>>

CanvasImageIndex(tb) ==
  /\ Room
  /\ LET r == canvasImageIndex(imageList, tb) IN
       /\ imageList' = r.list
       /\ Requested("image", "canvasImageIndex", imageList, r)
  /\ UNCHANGED <<uiVars, materialList, modelList, writtenCount, collada, matOut>>

MapImageIndex(g, tb) ==
  /\ Room
  /\ LET r == mapImageIndex(imageList, g[1], g[2], g[3], tb) IN
       /\ imageList' = r.list
       /\ Requested("image", "mapImageIndex", imageList, r)
  /\ UNCHANGED <<uiVars, materialList, modelList, writtenCount, collada, matOut>>

LayerImageIndex(ids, g, tb) ==
  /\ Room
  /\ LET r == layerImageIndex(imageList, ids, g[1], g[2], g[3], tb) IN
       /\ imageList' = r.list
       /\ Requested("image", "layerImageIndex", imageList, r)
  /\ UNCHANGED <<uiVars, materialList, modelList, writtenCount, collada, matOut>>

(***************************************************************************)
(* ImageManager: resolving a descriptor to pixel data.                     *)
(***************************************************************************)
\* exportSettings.mapSettings.outputSize() and exportSettings.baseExtent
CanvasSize == <<4, 3>>
BaseExtent == "E0"

renderedImage(width, height, extent, transp_background, layerids) ==
  [kind |-> "rendered", width |-> width, height |-> height, extent |-> extent,
   transp |-> transp_background, layerids |-> layerids]

\* the branch `canvas is None or transp_background or True` is always taken
mapCanvasImage(transp_background) ==
  renderedImage(CanvasSize[1], CanvasSize[2], BaseExtent, transp_background, <<>>)

\* the layers the project knows, by id; "L2" is a plugin layer
RenderLayers ==
  <<[id |-> "L1", type |-> "VectorLayer"], [id |-> "L2", type |-> "PluginLayer"]>>

\* QgsMapSettings.layerIds(): the ids of the layers, in order
layerIds(layers) == [i \in DOMAIN layers |-> layers[i].id]

\* tools.getLayersByLayerIds: the project's layer of each id, ids the project
\* does not know being skipped
RECURSIVE getLayersByLayerIds(_)
getLayersByLayerIds(ids) ==
  IF ids = <<>> THEN <<>>
  ELSE LET found == SelectSeq(RenderLayers, LAMBDA l : l.id = ids[1])
       IN (IF found = <<>> THEN <<>> ELSE <<found[1]>>) \o getLayersByLayerIds(Tail(ids))

\* extent.unrotatedRect() and extent.rotation() of a RotatedRect
unrotatedRect(extent) == <<"unrotatedRect", extent>>
rotation(extent) == IF extent = "E1" THEN 30 ELSE 0

\* QColor(Qt.transparent)
Transparent == "transparent"

\* a restoring that puts back everything but the layers
restore_keepLayers(settings, old) ==
  [outputSize |-> old.outputSize,
   extent |-> old.extent,
   rotation |-> old.rotation,
   layers |-> settings.layers,
   backgroundColor |-> old.backgroundColor]

\* the statements under "restore map settings": the five setters, given the
\* values stored under "store old map settings"
restore(settings, old) ==
  [outputSize |-> old.outputSize,
   extent |-> old.extent,
   rotation |-> old.rotation,
   layers |-> getLayersByLayerIds(old.layerids),
   backgroundColor |-> old.backgroundColor]

\* the map settings through one renderedImage call: the values stored, the
\* settings the render job is given, how the job is run, and the settings
\* when the call returns
renderedImageSettings(settings, width, height, extent, transp_background, layerids) ==
  LET old == [outputSize |-> settings.outputSize,
              extent |-> settings.extent,
              rotation |-> settings.rotation,
              layerids |-> layerIds(settings.layers),
              backgroundColor |-> settings.backgroundColor]
      job == [outputSize |-> <<width, height>>,
              extent |-> unrotatedRect(extent),
              rotation |-> rotation(extent),
              layers |-> IF layerids # <<>> THEN getLayersByLayerIds(layerids)
                         ELSE settings.layers,
              backgroundColor |-> IF transp_background THEN Transparent
                                  ELSE settings.backgroundColor]
      has_pluginlayer == \E i \in DOMAIN job.layers : job.layers[i].type = "PluginLayer"
  IN [before |-> settings,
      job |-> job,
      run |-> IF has_pluginlayer THEN "renderSynchronously" ELSE "start, waitForFinished",
      after |-> restore(job, old)]

\* the renderedImage calls that image(index) makes: none for an image file
imageRenders(settings, list, index) ==
  LET img == list[index + 1]
      imageType == img[1]
  IN IF imageType = IMG_IMAGE_FILE THEN <<>>
     ELSE IF imageType = IMG_MAP_IMAGE
     THEN <<renderedImageSettings(settings, img[2][1], img[2][2], img[2][3], img[2][4], <<>>)>>
     ELSE IF imageType = IMG_LAYER_IMAGE
     THEN <<renderedImageSettings(settings, img[2][2], img[2][3], img[2][4], img[2][5],
                                  img[2][1])>>
     ELSE <<renderedImageSettings(settings, settings.outputSize[1], settings.outputSize[2],
                                  BaseExtent, img[2], <<>>)>>

\* the settings an operation leaves that made the calls rs, having started with settings
SettingsAfter(settings, rs) == IF rs = <<>> THEN settings ELSE rs[Len(rs)].after

\* the renderedImage calls of image(i) for the indices is, in order, each
\* starting with the settings the one before left
RECURSIVE rendersFor(_, _, _)
rendersFor(settings, list, is) ==
  IF is = <<>> THEN <<>>
  ELSE LET first == imageRenders(settings, list, is[1])
       IN first \o rendersFor(SettingsAfter(settings, first), list, Tail(is))

\* an image operation that resolves the images at the indices is
Renders(list, is) ==
  LET rs == rendersFor(exportSettings.mapSettings, list, is)
  IN /\ renders' = rs
     /\ exportSettings' = [exportSettings EXCEPT
                             !.mapSettings = SettingsAfter(exportSettings.mapSettings, rs)]

\* ImageManager.image: the image and the messages logged while resolving it
image(list, index) ==
  LET img == list[index + 1]
      imageType == img[1]
  IN IF imageType = IMG_IMAGE_FILE
     THEN IF PathKind(img[2]) = "file"
          THEN [image |-> IF Decodable(img[2]) THEN [kind |-> "file", path |-> img[2]]
                          ELSE [kind |-> "null", path |-> img[2]],
                log |-> <<>>]
          ELSE [image |-> [kind |-> "placeholder", width |-> 1, height |-> 1],
                log |-> <<<<"Image file not found", img[2]>>>>]
     ELSE IF imageType = IMG_MAP_IMAGE
     THEN [image |-> renderedImage(img[2][1], img[2][2], img[2][3], img[2][4], <<>>),
           log |-> <<>>]
     ELSE IF imageType = IMG_LAYER_IMAGE
     THEN [image |-> renderedImage(img[2][2], img[2][3], img[2][4], img[2][5], img[2][1]),
           log |-> <<>>]
     ELSE [image |-> mapCanvasImage(img[2]), log |-> <<>>]

\* ImageManager.base64image: a QImage is always truthy, so the image is encoded
base64image(list, index) ==
  LET r == image(list, index) IN [data |-> <<"base64", r.image>>, log |-> r.log]

\* the files ImageManager.writeAll saves, and what it logs, from index i on
RECURSIVE writeAllFrom(_, _, _)
writeAllFrom(list, pathRoot, i) ==
  IF i >= count(list) THEN [out |-> <<>>, log |-> <<>>]
  ELSE LET r == image(list, i)
           rest == writeAllFrom(list, pathRoot, i + 1)
       IN [out |-> <<<<pathRoot, "_IMG", i, ".png", r.image>>>> \o rest.out,
           log |-> r.log \o rest.log]

PathRoots == {"out"}

Image(index) ==
  /\ index \in 0..(count(imageList) - 1)
  /\ LET r == image(imageList, index) IN
       last' = [NoLast EXCEPT !.op = "image", !.mgr = "image", !.ret = index,
                              !.out = <<r.image>>, !.log = r.log]
  /\ Renders(imageList, <<index>>)
  /\ UNCHANGED <<quietVars, imageList, materialList, modelList, writtenCount, collada, matOut,
                 hist>>

Base64image(index) ==
  /\ index \in 0..(count(imageList) - 1)
  /\ LET r == base64image(imageList, index) IN
       last' = [NoLast EXCEPT !.op = "base64image", !.mgr = "image", !.ret = index,
                              !.out = <<r.data>>, !.log = r.log]
  /\ Renders(imageList, <<index>>)
  /\ UNCHANGED <<quietVars, imageList, materialList, modelList, writtenCount, collada, matOut,
                 hist>>

ImageWrite(index, path) ==
  /\ index \in 0..(count(imageList) - 1)
  /\ LET r == image(imageList, index) IN
       last' = [NoLast EXCEPT !.op = "imageWrite", !.mgr = "image", !.ret = index,
                              !.out = <<<<path, r.image>>>>, !.log = r.log]
  /\ Renders(imageList, <<index>>)
  /\ UNCHANGED <<quietVars, imageList, materialList, modelList, writtenCount, collada, matOut,
                 hist>>

ImageWriteAll(pathRoot) ==
  /\ LET r == writeAllFrom(imageList, pathRoot, 0) IN
       last' = [NoLast EXCEPT !.op = "imageWriteAll", !.mgr = "image",
                              !.out = r.out, !.log = r.log]
  /\ Renders(imageList, [i \in 1..count(imageList) |-> i - 1])
  /\ UNCHANGED <<quietVars, imageList, materialList, modelList, writtenCount, collada, matOut,
                 hist>>

(***************************************************************************)
(* MaterialManager: index requests.                                        *)
(***************************************************************************)
\* color[0:2]
Prefix2(color) == SubSeq(color, 1, IF Len(color) < 2 THEN Len(color) ELSE 2)

\* the colour stored as it was given
_indexCol_keep(list, type, color, opacity, doubleSide) ==
  _index(list, <<type, color, opacity, doubleSide>>)

_indexCol(list, type, color, opacity, doubleSide) ==
  LET col == IF Prefix2(color) # <<"0", "x">> THEN ERROR_COLOR ELSE color
  IN _index(list, <<type, col, opacity, doubleSide>>)

getMeshLambertIndex(list, color, opacity, doubleSide) ==
  _indexCol(list, MESH_LAMBERT, color, opacity, doubleSide)

getSmoothMeshLambertIndex(list, color, opacity, doubleSide) ==
  _indexCol(list, MESH_LAMBERT_SMOOTH, color, opacity, doubleSide)

getFlatMeshLambertIndex(list, color, opacity, doubleSide) ==
  _indexCol(list, MESH_LAMBERT_FLAT, color, opacity, doubleSide)

getLineBasicIndex(list, color, opacity) ==
  _indexCol(list, LINE_BASIC, color, opacity, FALSE)

getWireframeIndex(list, color, opacity) ==
  _indexCol(list, WIREFRAME, color, opacity, FALSE)

getCanvasImageIndex(list, opacity, transp_background) ==
  _index(list, <<MAT_CANVAS_IMAGE, transp_background, opacity, TRUE>>)

getMapImageIndex(list, width, height, extent, opacity, transp_background) ==
  _index(list, <<MAT_MAP_IMAGE, <<width, height, extent, transp_background>>, opacity, TRUE>>)

getLayerImageIndex(list, layerids, width, height, extent, opacity, transp_background) ==
  _index(list, <<MAT_LAYER_IMAGE, <<layerids, width, height, extent, transp_background>>,
                 opacity, TRUE>>)

getImageFileIndex(list, path, opacity, transp_background, doubleSide) ==
  _index(list, <<MAT_IMAGE_FILE, <<path, transp_background>>, opacity, doubleSide>>)

getSpriteIndex(list, path, opacity) ==
  _index(list, <<SPRITE, <<path, TRUE>>, opacity, FALSE>>)

\* a direct request on the material manager with result r
MaterialRequested(op, r) ==
  /\ Room
  /\ materialList' = r.list
  /\ Requested("material", op, materialList, r)
  /\ UNCHANGED <<uiVars, imageList, modelList, writtenCount, collada, matOut>>

GetMeshLambertIndex(color, opacity, doubleSide) ==
  MaterialRequested("getMeshLambertIndex",
                    getMeshLambertIndex(materialList, color, opacity, doubleSide))

GetSmoothMeshLambertIndex(color, opacity, doubleSide) ==
  MaterialRequested("getSmoothMeshLambertIndex",
                    getSmoothMeshLambertIndex(materialList, color, opacity, doubleSide))

GetFlatMeshLambertIndex(color, opacity, doubleSide) ==
  MaterialRequested("getFlatMeshLambertIndex",
                    getFlatMeshLambertIndex(materialList, color, opacity, doubleSide))

GetLineBasicIndex(color, opacity) ==
  MaterialRequested("getLineBasicIndex", getLineBasicIndex(materialList, color, opacity))

GetWireframeIndex(color, opacity) ==
  MaterialRequested("getWireframeIndex", getWireframeIndex(materialList, color, opacity))

GetCanvasImageIndex(opacity, tb) ==
  MaterialRequested("getCanvasImageIndex", getCanvasImageIndex(materialList, opacity, tb))

GetMapImageIndex(g, opacity, tb) ==
  MaterialRequested("getMapImageIndex",
                    getMapImageIndex(materialList, g[1], g[2], g[3], opacity, tb))

GetLayerImageIndex(ids, g, opacity, tb) ==
  MaterialRequested("getLayerImageIndex",
                    getLayerImageIndex(materialList, ids, g[1], g[2], g[3], opacity, tb))

GetImageFileIndex(path, opacity, tb, doubleSide) ==
  MaterialRequested("getImageFileIndex",
                    getImageFileIndex(materialList, path, opacity, tb, doubleSide))

GetSpriteIndex(path, opacity) ==
  MaterialRequested("getSpriteIndex", getSpriteIndex(materialList, path, opacity))

(***************************************************************************)
(* MaterialManager: build, buildAll and write.                             *)
(***************************************************************************)
\* the type-aliasing table of build and write: {...}.get(mat[0], mat[0])
\* the table mt of build, with its default .get(mat[0], mat[0])
mt(type) ==
  CASE type = WIREFRAME -> MESH_LAMBERT
    [] type = MESH_LAMBERT_FLAT -> MESH_LAMBERT
    [] type = MAT_CANVAS_IMAGE -> MESH_PHONG
    [] type = MAT_MAP_IMAGE -> MESH_PHONG
    [] type = MAT_LAYER_IMAGE -> MESH_PHONG
    [] type = MAT_IMAGE_FILE -> MESH_PHONG
    [] OTHER -> type

\* the table of write with the flat-Lambert row left out
toMaterialType_noFlat(type) ==
  IF type = WIREFRAME THEN MESH_LAMBERT
  ELSE IF type \in {MAT_CANVAS_IMAGE, MAT_MAP_IMAGE, MAT_LAYER_IMAGE, MAT_IMAGE_FILE}
       THEN MESH_PHONG
  ELSE type

\* the table toMaterialType of write, with its default .get(mat[0], mat[0])
toMaterialType(type) ==
  IF type \in {WIREFRAME, MESH_LAMBERT_FLAT} THEN MESH_LAMBERT
  ELSE IF type \in {MAT_CANVAS_IMAGE, MAT_MAP_IMAGE, MAT_LAYER_IMAGE, MAT_IMAGE_FILE}
       THEN MESH_PHONG
  ELSE type

ImageBacked == {MAT_CANVAS_IMAGE, MAT_MAP_IMAGE, MAT_LAYER_IMAGE, MAT_IMAGE_FILE, SPRITE}

\* transp_background as build unpacks it from mat[1]
TranspOf(mat) ==
  IF mat[1] = MAT_CANVAS_IMAGE THEN mat[2]
  ELSE IF mat[1] = MAT_MAP_IMAGE THEN mat[2][4]
  ELSE IF mat[1] = MAT_LAYER_IMAGE THEN mat[2][5]
  ELSE IF mat[1] \in {MAT_IMAGE_FILE, SPRITE} THEN mat[2][2]
  ELSE FALSE

\* the image index request build and write make for an image-backed material
MaterialImageIndex(imgList, mat) ==
  IF mat[1] = MAT_CANVAS_IMAGE THEN canvasImageIndex(imgList, mat[2])
  ELSE IF mat[1] = MAT_MAP_IMAGE
       THEN mapImageIndex(imgList, mat[2][1], mat[2][2], mat[2][3], mat[2][4])
  ELSE IF mat[1] = MAT_LAYER_IMAGE
       THEN layerImageIndex(imgList, mat[2][1], mat[2][2], mat[2][3], mat[2][4], mat[2][5])
  ELSE imageIndex(imgList, mat[2][1])

HexDigit(ch) ==
  CASE ch = "0" -> 0 [] ch = "1" -> 1 [] ch = "2" -> 2 [] ch = "3" -> 3 [] ch = "4" -> 4
    [] ch = "5" -> 5 [] ch = "6" -> 6 [] ch = "7" -> 7 [] ch = "8" -> 8 [] ch = "9" -> 9
    [] ch = "a" -> 10 [] ch = "b" -> 11 [] ch = "c" -> 12 [] ch = "d" -> 13
    [] ch = "e" -> 14 [] ch = "f" -> 15 [] OTHER -> -1

RECURSIVE HexDigits(_, _)
HexDigits(digits, acc) ==
  IF digits = <<>> THEN acc
  ELSE IF HexDigit(digits[1]) < 0 THEN -1
  ELSE HexDigits(Tail(digits), acc * 16 + HexDigit(digits[1]))

\* int(color, 16): -1 stands for the ValueError of a string that is no hex number
HexInt(color) ==
  LET digits == IF Prefix2(color) = <<"0", "x">> THEN SubSeq(color, 3, Len(color)) ELSE color
  IN IF digits = <<>> THEN -1 ELSE HexDigits(digits, 0)

\* the flags build and write add after the image or colour entry
\* the keys build sets after the image or the colour
MaterialFlags(mat) ==
  (IF TranspOf(mat) THEN "t" :> 1 ELSE EmptyDict)
  @@ (IF mat[1] = WIREFRAME THEN "w" :> 1 ELSE EmptyDict)
  @@ (IF mat[1] = MESH_LAMBERT_FLAT THEN "flat" :> 1 ELSE EmptyDict)
  @@ (IF mat[3] < 1 THEN "o" :> mat[3] ELSE EmptyDict)
  @@ (IF mat[4] THEN "ds" :> 1 ELSE EmptyDict)

\* transp_background as the if/elif chain of write leaves it
writeTransp(mat) ==
  CASE mat[1] = MAT_CANVAS_IMAGE -> mat[2]
    [] mat[1] = MAT_MAP_IMAGE -> mat[2][4]
    [] mat[1] = MAT_LAYER_IMAGE -> mat[2][5]
    [] mat[1] \in {MAT_IMAGE_FILE, SPRITE} -> mat[2][2]
    [] OTHER -> FALSE

\* the keys write sets after the image index or the colour
writeFlags(mat) ==
  LET opacity == mat[3] IN
  (IF writeTransp(mat) THEN "t" :> 1 ELSE EmptyDict)
  @@ (IF mat[1] = WIREFRAME THEN "w" :> 1 ELSE EmptyDict)
  @@ (IF mat[1] = MESH_LAMBERT_FLAT THEN "flat" :> 1 ELSE EmptyDict)
  @@ (IF opacity < 1 THEN "o" :> opacity ELSE EmptyDict)
  @@ (IF mat[4] THEN "ds" :> 1 ELSE EmptyDict)

\* Python's None for a path; a path is a tuple of its parts
None == <<>>

\* MaterialManager.build: the dictionary m, the image list afterwards, the image
\* index requests made, the files written, the messages logged, and whether it
\* returned (int() raises on a colour that is no hex number)
build(matList, imgList, index, filepath, url) ==
  LET mat == matList[index + 1]
      isImage == mat[1] \in ImageBacked
      r == MaterialImageIndex(imgList, mat)
      res == image(r.list, r.index)
  IN IF isImage
     THEN [m |-> ("type" :> mt(mat[1]))
                 @@ ("image" :> IF filepath = None THEN [object |-> res.image]
                                ELSE [url |-> url])
                 @@ MaterialFlags(mat),
           images |-> r.list,
           reqs |-> <<<<r.data, r.index>>>>,
           out |-> IF filepath = None THEN <<>> ELSE <<<<filepath, res.image>>>>,
           log |-> res.log,
           ok |-> TRUE]
     ELSE [m |-> ("type" :> mt(mat[1])) @@ ("c" :> HexInt(mat[2]))
                 @@ MaterialFlags(mat),
           images |-> imgList,
           reqs |-> <<>>,
           out |-> <<>>,
           log |-> <<>>,
           ok |-> HexInt(mat[2]) >= 0]

\* MaterialManager.buildAll from index i on: every build is given a file path
RECURSIVE buildAllFrom(_, _, _, _, _)
buildAllFrom(matList, imgList, pathRoot, urlRoot, i) ==
  IF i >= Len(matList)
  THEN [mList |-> <<>>, images |-> imgList, reqs |-> <<>>, out |-> <<>>, log |-> <<>>,
        ok |-> TRUE]
  ELSE LET one == build(matList, imgList, i, <<pathRoot, "_IMG", i, ".png">>,
                        <<urlRoot, "_IMG", i, ".png">>)
           rest == buildAllFrom(matList, one.images, pathRoot, urlRoot, i + 1)
       IN IF ~one.ok
          THEN [mList |-> <<>>, images |-> one.images, reqs |-> one.reqs, out |-> one.out,
                log |-> one.log, ok |-> FALSE]
          ELSE [mList |-> <<one.m>> \o rest.mList, images |-> rest.images,
                reqs |-> one.reqs \o rest.reqs, out |-> one.out \o rest.out,
                log |-> one.log \o rest.log, ok |-> rest.ok]

\* the image index request with the path taken for a new image each time
writeImageIndex_fresh(imgList, mat) ==
  [index |-> Len(imgList), list |-> Append(imgList, <<IMG_IMAGE_FILE, mat[2]>>),
   data |-> <<IMG_IMAGE_FILE, mat[2]>>]

\* the image index request the if/elif chain of write makes for an image-backed
\* material
writeImageIndex(imgList, mat) ==
  CASE mat[1] = MAT_CANVAS_IMAGE -> canvasImageIndex(imgList, mat[2])
    [] mat[1] = MAT_MAP_IMAGE ->
         mapImageIndex(imgList, mat[2][1], mat[2][2], mat[2][3], mat[2][4])
    [] mat[1] = MAT_LAYER_IMAGE ->
         layerImageIndex(imgList, mat[2][1], mat[2][2], mat[2][3], mat[2][4], mat[2][5])
    [] mat[1] \in {MAT_IMAGE_FILE, SPRITE} -> imageIndex(imgList, mat[2][1])

\* one pass of the loop of MaterialManager.write, for the material at index i
writeOne(mat, imgList) ==
  LET isImage == mat[1] \in ImageBacked
      r == writeImageIndex(imgList, mat)
  IN IF isImage
     THEN [m |-> ("type" :> toMaterialType(mat[1])) @@ ("i" :> r.index) @@ writeFlags(mat),
           images |-> r.list, reqs |-> <<<<r.data, r.index>>>>]
     ELSE [m |-> ("type" :> toMaterialType(mat[1])) @@ ("c" :> mat[2]) @@ writeFlags(mat),
           images |-> imgList, reqs |-> <<>>]

\* the loop of write with writtenCount left as it was
RECURSIVE writeFrom_keepCount(_, _, _)
writeFrom_keepCount(matList, imgList, written) ==
  IF written >= Len(matList)
  THEN [lines |-> <<>>, images |-> imgList, reqs |-> <<>>, written |-> written]
  ELSE LET one == writeOne(matList[written + 1], imgList)
           rest == writeFrom_keepCount(matList, one.images, written + 1)
       IN [lines |-> <<<<"lyr.m", written, one.m>>>> \o rest.lines,
           images |-> rest.images, reqs |-> one.reqs \o rest.reqs,
           written |-> written]

\* the loop of MaterialManager.write over _list[writtenCount:], written standing
\* for the running writtenCount
RECURSIVE writeFrom(_, _, _)
writeFrom(matList, imgList, written) ==
  IF written >= Len(matList)
  THEN [lines |-> <<>>, images |-> imgList, reqs |-> <<>>, written |-> written]
  ELSE LET one == writeOne(matList[written + 1], imgList)
           rest == writeFrom(matList, one.images, written + 1)
       IN [lines |-> <<<<"lyr.m", written, one.m>>>> \o rest.lines,
           images |-> rest.images, reqs |-> one.reqs \o rest.reqs,
           written |-> rest.written]

FilePaths == {None, <<"mat.png">>}

MaterialBuild(index, filepath) ==
  /\ index \in 0..(Len(materialList) - 1)
  /\ LET b == build(materialList, imageList, index, filepath, <<"mat.png">>) IN
       /\ imageList' = b.images
       /\ hist' = NoteAll(hist, "image", b.reqs)
       /\ Renders(b.images, [k \in DOMAIN b.reqs |-> b.reqs[k][2]])
       /\ last' = [NoLast EXCEPT !.op = "build", !.mgr = "material", !.ret = index,
                                 !.data = IF b.ok THEN <<b.m>> ELSE <<"ValueError">>,
                                 !.out = b.out, !.log = b.log]
  /\ UNCHANGED <<quietVars, materialList, modelList, writtenCount, collada, matOut>>

MaterialBuildAll(pathRoot) ==
  /\ LET b == buildAllFrom(materialList, imageList, pathRoot, pathRoot, 0) IN
       /\ imageList' = b.images
       /\ hist' = NoteAll(hist, "image", b.reqs)
       /\ Renders(b.images, [k \in DOMAIN b.reqs |-> b.reqs[k][2]])
       /\ last' = [NoLast EXCEPT !.op = "buildAll", !.mgr = "material",
                                 !.data = IF b.ok THEN b.mList ELSE <<"ValueError">>,
                                 !.out = b.out, !.log = b.log]
  /\ UNCHANGED <<quietVars, materialList, modelList, writtenCount, collada, matOut>>

MaterialWrite ==
  /\ LET w == writeFrom(materialList, imageList, writtenCount) IN
       /\ imageList' = w.images
       /\ writtenCount' = w.written
       /\ matOut' = matOut \o w.lines
       /\ hist' = NoteAll(hist, "image", w.reqs)
       /\ last' = [NoLast EXCEPT !.op = "materialWrite", !.mgr = "material",
                                 !.before = writtenCount, !.out = w.lines]
  /\ UNCHANGED <<uiVars, materialList, modelList, collada>>

(***************************************************************************)
(* ModelManager.                                                           *)
(***************************************************************************)
modelIndex(list, path, model_type) == _index(list, <<model_type, path>>)

\* the flag following the type of the last request
colladaAfter_lastType(flag, model_type) == model_type = "COLLADA"

\* the flag modelIndex sets before it asks for the index
colladaAfter(flag, model_type) == IF model_type = "COLLADA" THEN TRUE ELSE flag

filesToCopy(flag) ==
  IF flag THEN <<[files |-> <<"js/threejs/loaders/ColladaLoader.js">>, dest |-> "threejs/loaders"]>>
  ELSE <<>>

scripts(flag) == IF flag THEN <<"threejs/loaders/ColladaLoader.js">> ELSE <<>>

\* the chain of replace() calls on the text of a model file; the backslash is
\* replaced first, so no later replacement touches what an earlier one wrote
EscapeChar(ch) ==
  IF ch = "\\" THEN <<"\\", "\\">>
  ELSE IF ch = "'" THEN <<"\\", "'">>
  ELSE IF ch = "\t" THEN <<"\\", "t">>
  ELSE IF ch = "\r" THEN <<"\\", "r">>
  ELSE IF ch = "\n" THEN <<"\\", "n">>
  ELSE <<ch>>

RECURSIVE Escape(_)
Escape(data) == IF data = <<>> THEN <<>> ELSE EscapeChar(data[1]) \o Escape(Tail(data))

\* what the loop of ModelManager.write does for the model at position index
modelLine(index, model) ==
  LET model_type == model[1]
      path == model[2]
      exists == PathKind(path) # "none"
  IN IF exists /\ PathKind(path) = "file"
     THEN [line |-> <<"project.models", index, model_type, <<"data", Escape(FileData(path))>>>>,
           log |-> <<>>]
     ELSE [line |-> <<"project.models", index, model_type, <<"null">>>>,
           log |-> <<<<IF exists THEN "Not 3D model file path" ELSE "3D model file not found",
                       path, model_type>>>>]

\* the loop giving up at the first path that is no file
RECURSIVE modelLinesAbort(_, _)
modelLinesAbort(list, index) ==
  IF index >= Len(list) THEN [lines |-> <<>>, log |-> <<>>]
  ELSE LET one == modelLine(index, list[index + 1])
           rest == modelLinesAbort(list, index + 1)
       IN IF PathKind(list[index + 1][2]) # "file"
          THEN [lines |-> <<>>, log |-> one.log]
          ELSE [lines |-> <<one.line>> \o rest.lines, log |-> one.log \o rest.log]

RECURSIVE modelLinesFrom(_, _)
modelLinesFrom(list, index) ==
  IF index >= Len(list) THEN [lines |-> <<>>, log |-> <<>>]
  ELSE LET one == modelLine(index, list[index + 1])
           rest == modelLinesFrom(list, index + 1)
       IN [lines |-> <<one.line>> \o rest.lines, log |-> one.log \o rest.log]

\* ModelManager.write: nothing for an empty list, else the header and one line a model
modelWrite(list) ==
  IF Len(list) = 0 THEN [lines |-> <<>>, log |-> <<>>]
  ELSE LET r == modelLinesFrom(list, 0)
       IN [lines |-> <<<<"// 3D model data">>>> \o r.lines, log |-> r.log]

ModelIndex(path, model_type) ==
  /\ Room
  /\ LET r == modelIndex(modelList, path, model_type) IN
       /\ modelList' = r.list
       /\ Requested("model", "modelIndex", modelList, r)
  /\ collada' = colladaAfter(collada, model_type)
  /\ UNCHANGED <<uiVars, imageList, materialList, writtenCount, matOut>>

ModelWrite ==
  /\ LET w == modelWrite(modelList) IN
       last' = [NoLast EXCEPT !.op = "modelWrite", !.mgr = "model",
                              !.out = w.lines, !.log = w.log]
  /\ UNCHANGED <<uiVars, imageList, materialList, modelList, writtenCount, collada, matOut, hist>>

ModelScripts ==
  /\ last' = [NoLast EXCEPT !.op = "scripts", !.mgr = "model",
                            !.out = <<scripts(collada), filesToCopy(collada)>>]
  /\ UNCHANGED <<uiVars, imageList, materialList, modelList, writtenCount, collada, matOut, hist>>

(***************************************************************************)
(* The export dialog (qgis2threejsdialog.py).                              *)
(***************************************************************************)

\* ObjectTreeItem: the ids of the top-level tree items, in tree order
ITEM_WORLD == "WORLD"
ITEM_CONTROLS == "CTRL"
ITEM_DEM == "DEM"
ITEM_OPTDEM == "OPTDEM"
ITEM_POINT == "POINT"
ITEM_LINE == "LINE"
ITEM_POLYGON == "POLYGON"
topItemIds ==
  <<ITEM_WORLD, ITEM_CONTROLS, ITEM_DEM, ITEM_OPTDEM, ITEM_POINT, ITEM_LINE, ITEM_POLYGON>>

\* the property pages
PAGE_NONE == "PAGE_NONE"
PAGE_WORLD == "PAGE_WORLD"
PAGE_CONTROLS == "PAGE_CONTROLS"
PAGE_DEM == "PAGE_DEM"
PAGE_VECTOR == "PAGE_VECTOR"

\* self.topItemPages.get(id, PAGE_NONE)
topItemPages(id) ==
  CASE id = ITEM_WORLD -> PAGE_WORLD
    [] id = ITEM_CONTROLS -> PAGE_CONTROLS
    [] id = ITEM_DEM -> PAGE_DEM
    [] OTHER -> PAGE_NONE

\* the layers of the project: one raster and one vector layer
ProjectLayers ==
  <<[id |-> "r1", type |-> "RasterLayer"], [id |-> "v1", type |-> "VectorLayer"]>>

\* a layer id a settings file still names although the project has no such layer
StaleLayer == "old"

\* QgsProject.instance().mapLayer(layerId): the layer, or None
mapLayer(layerId) ==
  IF \E i \in 1..Len(ProjectLayers) : ProjectLayers[i].id = layerId
  THEN <<(CHOOSE l \in Range(ProjectLayers) : l.id = layerId)>>
  ELSE None

\* ObjectTreeItem.parentIdByLayer(layer)
parentIdByLayer(layer) ==
  IF layer.type = "RasterLayer" THEN ITEM_OPTDEM ELSE ITEM_POINT

\* the templates of the template directory, with the type of each
Templates ==
  <<[name |-> "3DViewer.html", type |-> "plain"],
    [name |-> "FileExport.html", type |-> "plain"],
    [name |-> "Sphere.html", type |-> "sphere"]>>

\* cbox.itemData(index, Qt.UserRole): None without a current template
itemData(index) ==
  IF index \in 0..(Len(Templates) - 1) THEN <<Templates[index + 1].type>> ELSE None

\* cbox.currentText()
currentText(index) ==
  IF index \in 0..(Len(Templates) - 1) THEN Templates[index + 1].name ELSE ""

\* cbox.findText(name)
findText(name) ==
  IF \E i \in 1..Len(Templates) : Templates[i].name = name
  THEN (CHOOSE i \in 1..Len(Templates) : Templates[i].name = name) - 1
  ELSE -1

\* what a property page holds: the value of each of its widgets
DefaultProps == [comboBox_DEMLayer |-> "", visible |-> FALSE]
EditedProps == [comboBox_DEMLayer |-> "r1", visible |-> TRUE]
PropValues == {DefaultProps, EditedProps}

\* page.setup(properties): the widgets take the properties, or the defaults
setup(properties) ==
  IF properties = None THEN DefaultProps ELSE properties[1]

\* tree items: <<id>> is a top-level item, <<parentId, layerId>> a layer item
TopItem(id) == <<id>>
LayerItem(layer) == <<parentIdByLayer(layer), layer.id>>
parent(item) == IF Len(item) = 2 THEN <<item[1]>> ELSE None
data(item) == item[Len(item)]

\* the items of the tree initObjectTree builds, in the order an iterator visits them
RECURSIVE TreeItemsFrom(_)
TreeItemsFrom(ids) ==
  IF ids = <<>> THEN <<>>
  ELSE <<TopItem(ids[1])>>
       \o SelectSeq([i \in 1..Len(ProjectLayers) |-> LayerItem(ProjectLayers[i])],
                    LAMBDA it : it[1] = ids[1])
       \o TreeItemsFrom(Tail(ids))

TreeItems == TreeItemsFrom(topItemIds)

\* dict.get(key): <<value>> or None
Get(dict, key) == IF key \in DOMAIN dict THEN <<dict[key]>> ELSE None

\* dict.get(key, {})
GetDict(dict, key) == IF key \in DOMAIN dict THEN dict[key] ELSE EmptyDict

\* dict[key] = value
Put(dict, key, value) ==
  [k \in DOMAIN dict \cup {key} |-> IF k = key THEN value ELSE dict[k]]

\* the part of the dialog the tree and template handlers work on
Dlg ==
  [settings |-> _settings, cbox |-> cbox, templateType |-> templateType,
   treeCurrent |-> treeCurrent, hidden |-> hidden, currentItem |-> currentItem,
   currentPage |-> currentPage, pageProps |-> pageProps,
   outputFilename |-> outputFilename]

\* saveProperties(item, page), where properties is page.properties()
saveProperties(settings, item, properties) ==
  IF parent(item) = None
  THEN Put(settings, data(item), properties)
  ELSE LET parentId == data(parent(item))
           layers == GetDict(settings, parentId)
       IN Put(settings, parentId, Put(layers, data(item), properties))

\* the page currentObjectChanged chooses for an item, PAGE_NONE if it shows none
PageFor(item) ==
  IF parent(item) = None THEN topItemPages(data(item))
  ELSE LET layer == mapLayer(data(item)) IN
       IF layer = None THEN PAGE_NONE
       ELSE IF layer[1].type = "RasterLayer" THEN PAGE_DEM
       ELSE IF layer[1].type = "VectorLayer" THEN PAGE_VECTOR
       ELSE PAGE_NONE

\* the properties currentObjectChanged hands to the page's setup
PropertiesFor(settings, item) ==
  IF parent(item) = None THEN Get(settings, data(item))
  ELSE Get(GetDict(settings, data(parent(item))), data(item))

\* currentObjectChanged with the commit placed after the set-up of the new page
currentObjectChanged_setupFirst(d, current, previous) ==
  LET page == PageFor(current)
      shown == IF page = PAGE_NONE THEN d.pageProps
               ELSE setup(PropertiesFor(d.settings, current))
      props == IF <<page>> = d.currentPage THEN shown ELSE d.pageProps
      saved == IF previous # None /\ d.currentPage # None
               THEN saveProperties(d.settings, previous, props)
               ELSE d.settings
  IN [d EXCEPT !.settings = saved, !.currentItem = current,
               !.currentPage = IF page = PAGE_NONE THEN None ELSE <<page>>,
               !.pageProps = shown]

\* currentObjectChanged(currentItem, previousItem)
currentObjectChanged(d, current, previous) ==
  LET saved == IF previous # None /\ d.currentPage # None
               THEN saveProperties(d.settings, previous, d.pageProps)
               ELSE d.settings
      page == PageFor(current)
  IN IF page = PAGE_NONE
     THEN [d EXCEPT !.settings = saved, !.currentItem = current, !.currentPage = None]
     ELSE [d EXCEPT !.settings = saved, !.currentItem = current,
                    !.currentPage = <<page>>,
                    !.pageProps = setup(PropertiesFor(saved, current))]

\* treeWidget.setCurrentItem(item): currentItemChanged is emitted on a change
setCurrentItem(d, item) ==
  IF item = d.treeCurrent THEN d
  ELSE currentObjectChanged([d EXCEPT !.treeCurrent = item], item, d.treeCurrent)

\* setCurrentTreeItemByData(data): the first item of the tree carrying the data
FirstWithData(itemData_) ==
  LET hits == SelectSeq(TreeItems, LAMBDA it : <<data(it)>> = itemData_) IN
  IF hits = <<>> THEN None ELSE <<hits[1]>>

\* currentTemplateChanged(): hides the items, selects one, stores the type
currentTemplateChanged(d, lastData) ==
  LET type == itemData(d.cbox) IN
  IF type = d.templateType THEN d
  ELSE LET hid == [id \in Range(topItemIds) |->
                     type = <<"sphere">> /\ id # ITEM_CONTROLS]
           d1 == [d EXCEPT !.hidden = hid]
           found == IF lastData = None THEN None ELSE FirstWithData(lastData)
           d2 == IF type = <<"sphere">> THEN setCurrentItem(d1, TopItem(ITEM_CONTROLS))
                 ELSE IF found = None THEN setCurrentItem(d1, TopItem(ITEM_DEM))
                 ELSE setCurrentItem(d1, found[1])
       IN [d2 EXCEPT !.templateType = type]

\* initObjectTree() with the tree's signals blocked: new items, none current
initObjectTree(d) ==
  [d EXCEPT !.treeCurrent = None, !.hidden = [id \in Range(topItemIds) |-> FALSE]]

\* comboBox_Template.setCurrentIndex(index): the slot runs when the index changes
setCurrentIndex(d, index, lastData) ==
  IF index = d.cbox THEN d
  ELSE currentTemplateChanged([d EXCEPT !.cbox = index], lastData)

\* setSettings that keeps the stored template type when it rebuilds the tree
setSettings_keepType(d, settings, lastData) ==
  LET templateName == Get(settings, "Template")
      index == IF templateName = None \/ templateName = <<"">> THEN -1
               ELSE findText(templateName[1])
      d1 == [d EXCEPT !.settings = settings]
      d2 == IF index # -1 THEN setCurrentIndex(d1, index, lastData) ELSE d1
      filename == Get(settings, "OutputFilename")
      d3 == IF filename = None \/ filename = <<"">> THEN d2
            ELSE [d2 EXCEPT !.outputFilename = filename[1]]
  IN currentTemplateChanged(initObjectTree(d3), lastData)

\* setSettings that empties the mapping instead of storing the given one
setSettings_empty(d, settings, lastData) ==
  LET d1 == [d EXCEPT !.settings = EmptyDict] IN
  currentTemplateChanged([initObjectTree(d1) EXCEPT !.templateType = None], lastData)

\* setSettings(settings)
setSettings(d, settings, lastData) ==
  LET templateName == Get(settings, "Template")
      index == IF templateName = None \/ templateName = <<"">> THEN -1
               ELSE findText(templateName[1])
      d1 == [d EXCEPT !.settings = settings]
      d2 == IF index # -1 THEN setCurrentIndex(d1, index, lastData) ELSE d1
      filename == Get(settings, "OutputFilename")
      d3 == IF filename = None \/ filename = <<"">> THEN d2
            ELSE [d2 EXCEPT !.outputFilename = filename[1]]
      d4 == initObjectTree(d3)
  IN currentTemplateChanged([d4 EXCEPT !.templateType = None], lastData)

\* the clean-up of settings(True): layers the registry does not know are removed
RECURSIVE cleanLayers(_, _)
cleanLayers(settings, parentIds) ==
  IF parentIds = <<>> THEN settings
  ELSE LET itemId == parentIds[1] IN
       IF itemId \notin DOMAIN settings THEN cleanLayers(settings, Tail(parentIds))
       ELSE LET layers == settings[itemId]
                kept == [l \in {k \in DOMAIN layers : mapLayer(k) # None} |-> layers[l]]
            IN cleanLayers(Put(settings, itemId, kept), Tail(parentIds))

plugin_version == "2.0"

\* settings(clean): commits the displayed page, stamps version, template and
\* output file name, and removes unknown layers when clean is set
settingsOf(d, clean) ==
  LET s1 == IF d.treeCurrent # None /\ d.currentPage # None
            THEN saveProperties(d.settings, d.treeCurrent, d.pageProps)
            ELSE d.settings
      s2 == Put(s1, "PluginVersion", plugin_version)
      s3 == Put(s2, "Template", currentText(d.cbox))
      s4 == Put(s3, "OutputFilename", d.outputFilename)
  IN IF clean
     THEN cleanLayers(s4, <<ITEM_OPTDEM, ITEM_POINT, ITEM_LINE, ITEM_POLYGON>>)
     ELSE s4

\* json.dump(..., sort_keys=True) writes the keys of every mapping in code-point order
KeyOrder ==
  <<"CTRL", "DEM", "LINE", "OPTDEM", "OutputFilename", "POINT", "POLYGON",
    "PluginVersion", "Template", "WORLD", "comboBox_DEMLayer", "old", "r1", "v1",
    "visible">>

SortedKeys(dict) == SelectSeq(KeyOrder, LAMBDA k : k \in DOMAIN dict)

\* what a settings key holds: a value, the properties of a page, or layers
LayerParents == {ITEM_OPTDEM, ITEM_POINT, ITEM_LINE, ITEM_POLYGON}
PagedItems == {ITEM_WORLD, ITEM_CONTROLS, ITEM_DEM}

\* a mapping of plain values as JSON members: <<key, value>> in key order
dumpProps(props) ==
  LET keys == SortedKeys(props) IN [i \in DOMAIN keys |-> <<keys[i], props[keys[i]]>>]

dumpLayers(layers) ==
  LET keys == SortedKeys(layers) IN
  [i \in DOMAIN keys |-> <<keys[i], dumpProps(layers[keys[i]])>>]

\* json.dump(settings, f, sort_keys=True): the members of the file, in order
dump(settings) ==
  LET keys == SortedKeys(settings) IN
  [i \in DOMAIN keys |->
     <<keys[i],
       IF keys[i] \in LayerParents THEN dumpLayers(settings[keys[i]])
       ELSE IF keys[i] \in PagedItems THEN dumpProps(settings[keys[i]])
       ELSE settings[keys[i]]>>]

\* json.load of an object: the members in file order, a repeated key keeps the last
RECURSIVE loadProps(_)
loadProps(members) ==
  IF members = <<>> THEN EmptyDict
  ELSE LET m == members[Len(members)] IN
       Put(loadProps(SubSeq(members, 1, Len(members) - 1)), m[1], m[2])

RECURSIVE loadLayers(_)
loadLayers(members) ==
  IF members = <<>> THEN EmptyDict
  ELSE LET m == members[Len(members)] IN
       Put(loadLayers(SubSeq(members, 1, Len(members) - 1)), m[1], loadProps(m[2]))

RECURSIVE load(_)
load(members) ==
  IF members = <<>> THEN EmptyDict
  ELSE LET m == members[Len(members)] IN
       Put(load(SubSeq(members, 1, Len(members) - 1)), m[1],
           IF m[1] \in LayerParents THEN loadLayers(m[2])
           ELSE IF m[1] \in PagedItems THEN loadProps(m[2])
           ELSE m[2])

\* the same JSON object with its members written in the opposite order
Reversed(members) == [i \in DOMAIN members |-> members[Len(members) + 1 - i]]

\* settings files found on disk: one naming the sphere template and a layer
\* the project lost, one naming a template that is no longer installed
SettingsFiles ==
  { dump(("Template" :> "Sphere.html")
         @@ (ITEM_OPTDEM :> ((StaleLayer :> EditedProps) @@ ("r1" :> DefaultProps)))),
    dump(("Template" :> "Removed.html") @@ (ITEM_POINT :> ("v1" :> EditedProps))) }

OutputFilenames == {"", "out.html"}

\* progress(percentage): the bar is hidden at 100 and shown otherwise
progress(percentage) == percentage # 100

Percentages == {0, 50, 100}

\* checkValidity(): None, or an error message
ErrMsgs == {None, <<"">>, <<"No template">>}

\* the gates of run() with the validity result tested for truth
runGates_truthy(d, exists, confirmed, errMsg) ==
  IF d.outputFilename # "" /\ exists /\ ~confirmed
  THEN [export |-> FALSE, settings |-> d.settings]
  ELSE [export |-> (errMsg = None \/ errMsg = <<"">>), settings |-> settingsOf(d, FALSE)]

\* run() up to the exporter: the overwrite prompt, settings(), checkValidity()
runGates(d, exists, confirmed, errMsg) ==
  IF d.outputFilename # "" /\ exists /\ ~confirmed
  THEN [export |-> FALSE, settings |-> d.settings]
  ELSE [export |-> (errMsg = None), settings |-> settingsOf(d, FALSE)]

\* what run() stores in QSettings: the template and the controls of the export
LastSelections(settings) == <<settings["Template"], Get(settings, ITEM_CONTROLS)>>

\* run() after the exporter, restoring neither button when the export failed
runAfterExport_noRestore(ret, openOk, settings, before) ==
  IF ~ret
  THEN [runEnabled |-> FALSE, progressVisible |-> progress(100), settingsVisible |-> FALSE,
        persisted |-> before.persisted, opened |-> FALSE, result |-> "open"]
  ELSE [runEnabled |-> TRUE, progressVisible |-> progress(100),
        settingsVisible |-> (before.settingsVisible \/ ~openOk),
        persisted |-> <<LastSelections(settings)>>, opened |-> openOk,
        result |-> IF openOk THEN "accepted" ELSE "open"]

\* run() after the exporter, storing the last selections before it tests ret
runAfterExport_storeFirst(ret, openOk, settings, before) ==
  IF ~ret
  THEN [runEnabled |-> TRUE, progressVisible |-> progress(100), settingsVisible |-> TRUE,
        persisted |-> <<LastSelections(settings)>>, opened |-> FALSE, result |-> "open"]
  ELSE [runEnabled |-> TRUE, progressVisible |-> progress(100),
        settingsVisible |-> (before.settingsVisible \/ ~openOk),
        persisted |-> <<LastSelections(settings)>>, opened |-> openOk,
        result |-> IF openOk THEN "accepted" ELSE "open"]

\* run() after the exporter returned ret: progress(100), the Run button, then
\* on success QSettings, openHTMLFile and accept
runAfterExport(ret, openOk, settings, before) ==
  IF ~ret
  THEN [runEnabled |-> TRUE, progressVisible |-> progress(100), settingsVisible |-> TRUE,
        persisted |-> before.persisted, opened |-> FALSE, result |-> "open"]
  ELSE [runEnabled |-> TRUE, progressVisible |-> progress(100),
        settingsVisible |-> (before.settingsVisible \/ ~openOk),
        persisted |-> <<LastSelections(settings)>>, opened |-> openOk,
        result |-> IF openOk THEN "accepted" ELSE "open"]

\* the handler's result becomes the state of the dialog
Becomes(d) ==
  /\ _settings' = d.settings
  /\ cbox' = d.cbox
  /\ templateType' = d.templateType
  /\ treeCurrent' = d.treeCurrent
  /\ hidden' = d.hidden
  /\ currentItem' = d.currentItem
  /\ currentPage' = d.currentPage
  /\ pageProps' = d.pageProps
  /\ outputFilename' = d.outputFilename

treeVars ==
  <<_settings, cbox, templateType, treeCurrent, hidden, currentItem, currentPage,
    pageProps, outputFilename>>
runVars == <<runEnabled, settingsVisible, progressVisible, persisted, result, pc>>

Event(name, arg) == [name |-> name, arg |-> arg]

\* the dialog takes user input: it is open and not inside the exporter
Interactive == result = "open" /\ pc = "idle"

Shown(item) == ~hidden[item[1]]

\* the user clicks an item of the tree
SelectItem(item) ==
  /\ Interactive
  /\ Shown(item)
  /\ item # treeCurrent
  /\ Becomes(setCurrentItem(Dlg, item))
  /\ event' = Event("currentObjectChanged", <<treeCurrent # None /\ currentPage # None>>)
  /\ savedFile' = None
  /\ UNCHANGED <<lastTreeItemData, runVars, dmVars, viewVars, coreVars>>

\* objectItemChanged(item, column): the check box of a layer item was toggled
ObjectItemChanged(item) ==
  /\ Interactive
  /\ Shown(item)
  /\ parent(item) # None
  /\ Becomes(IF parent(item) = None \/ item = currentItem THEN Dlg
             ELSE setCurrentItem(Dlg, item))
  /\ event' = Event("objectItemChanged", None)
  /\ savedFile' = None
  /\ UNCHANGED <<lastTreeItemData, runVars, dmVars, viewVars, coreVars>>

\* the user edits a widget of the displayed page
EditPage(props) ==
  /\ Interactive
  /\ currentPage # None
  /\ props # pageProps
  /\ pageProps' = props
  /\ event' = Event("editPage", None)
  /\ savedFile' = None
  /\ UNCHANGED <<_settings, cbox, templateType, treeCurrent, hidden, currentItem,
                 currentPage, outputFilename>>
  /\ UNCHANGED <<lastTreeItemData, runVars, dmVars, viewVars, coreVars>>

\* the user picks another template in the combo box
SelectTemplate(index) ==
  /\ Interactive
  /\ index # cbox
  /\ Becomes(setCurrentIndex(Dlg, index, lastTreeItemData))
  /\ event' = Event("currentTemplateChanged", None)
  /\ savedFile' = None
  /\ UNCHANGED <<lastTreeItemData, runVars, dmVars, viewVars, coreVars>>

\* browseClicked(): the file dialog returns a name, or "" when cancelled
BrowseClicked(filename) ==
  /\ Interactive
  /\ IF filename = ""
     THEN UNCHANGED <<outputFilename, event, savedFile>>
     ELSE /\ outputFilename' = filename
          /\ event' = Event("browseClicked", None)
          /\ savedFile' = None
  /\ UNCHANGED <<_settings, cbox, templateType, treeCurrent, hidden, currentItem,
                 currentPage, pageProps>>
  /\ UNCHANGED <<lastTreeItemData, runVars, dmVars, viewVars, coreVars>>

\* the user clears the output file name: a temporary file is written
ClearOutputFilename ==
  /\ Interactive
  /\ outputFilename # ""
  /\ outputFilename' = ""
  /\ event' = Event("editOutputFilename", None)
  /\ savedFile' = None
  /\ UNCHANGED <<_settings, cbox, templateType, treeCurrent, hidden, currentItem,
                 currentPage, pageProps>>
  /\ UNCHANGED <<lastTreeItemData, runVars, dmVars, viewVars, coreVars>>

\* the files loadSettings can be pointed at: the ones on disk, and the file the
\* save just before wrote, with its members in either order
LoadableFiles ==
  SettingsFiles
    \cup (IF savedFile = None THEN {} ELSE {savedFile[1], Reversed(savedFile[1])})

\* loadSettings(): chosen is None when the file dialog was cancelled
LoadSettings(chosen) ==
  /\ Interactive
  /\ IF chosen = None
     THEN UNCHANGED <<treeVars, event, savedFile>>
     ELSE /\ Becomes(setSettings(Dlg, load(chosen[1]), lastTreeItemData))
          /\ event' = Event("loadSettings", <<load(chosen[1]), chosen[1]>>)
          /\ savedFile' = None
  /\ UNCHANGED <<lastTreeItemData, runVars, dmVars, viewVars, coreVars>>

\* saveSettings(): named is FALSE when the file dialog was cancelled
SaveSettings(named) ==
  /\ Interactive
  /\ IF named
     THEN LET s == settingsOf(Dlg, TRUE) IN
          /\ _settings' = s
          /\ savedFile' = <<dump(s)>>
          /\ event' = Event("saveSettings", <<s>>)
     ELSE UNCHANGED <<_settings, savedFile, event>>
  /\ UNCHANGED <<cbox, templateType, treeCurrent, hidden, currentItem, currentPage,
                 pageProps, outputFilename>>
  /\ UNCHANGED <<lastTreeItemData, runVars, dmVars, viewVars, coreVars>>

\* clearSettings(): the question box is answered with Ok or Cancel
ClearSettings(ok) ==
  /\ Interactive
  /\ IF ok
     THEN /\ Becomes(setSettings(Dlg, EmptyDict, lastTreeItemData))
          /\ event' = Event("clearSettings", <<EmptyDict, <<>>>>)
          /\ savedFile' = None
     ELSE UNCHANGED <<treeVars, event, savedFile>>
  /\ UNCHANGED <<lastTreeItemData, runVars, dmVars, viewVars, coreVars>>

\* what is known of a run() call: its inputs, and how far it got
RunInfo(exists, confirmed, errMsg, export) ==
  [exists |-> exists, confirmed |-> confirmed, errMsg |-> errMsg,
   invoked |-> export, returned |-> ~export, ret |-> FALSE, opened |-> FALSE,
   stored |-> persisted]

\* run() up to the call of the exporter
Run(exists, confirmed, errMsg) ==
  /\ Interactive
  /\ runEnabled
  /\ exists => outputFilename # ""
  /\ confirmed => exists
  /\ LET g == runGates(Dlg, exists, confirmed, errMsg) IN
       /\ _settings' = g.settings
       /\ event' = Event("run", RunInfo(exists, confirmed, errMsg, g.export))
       /\ IF g.export
          THEN /\ runEnabled' = FALSE
               /\ settingsVisible' = FALSE
               /\ progressVisible' = progress(0)
               /\ pc' = "exporting"
          ELSE UNCHANGED <<runEnabled, settingsVisible, progressVisible, pc>>
  /\ savedFile' = None
  /\ UNCHANGED <<cbox, templateType, treeCurrent, hidden, currentItem, currentPage,
                 pageProps, outputFilename>>
  /\ UNCHANGED <<lastTreeItemData, persisted, result, dmVars, viewVars, coreVars>>

\* the exporter reports progress through the callback run() gave it
Progress(percentage) ==
  /\ pc = "exporting"
  /\ progressVisible' = progress(percentage)
  /\ UNCHANGED <<treeVars, lastTreeItemData, runEnabled, settingsVisible, persisted,
                 result, pc, savedFile, event, dmVars, viewVars, coreVars>>

\* run() from the return of the exporter to its own return
RunReturns(ret, openOk) ==
  /\ pc = "exporting"
  /\ openOk => ret
  /\ LET r == runAfterExport(ret, openOk, _settings,
                             [settingsVisible |-> settingsVisible,
                              persisted |-> persisted]) IN
       /\ runEnabled' = r.runEnabled
       /\ progressVisible' = r.progressVisible
       /\ settingsVisible' = r.settingsVisible
       /\ persisted' = r.persisted
       /\ result' = r.result
       /\ event' = [event EXCEPT !.arg.returned = TRUE, !.arg.ret = ret,
                                 !.arg.opened = r.opened]
  /\ pc' = "idle"
  /\ UNCHANGED <<treeVars, lastTreeItemData, savedFile, dmVars, viewVars, coreVars>>

\* reject(): the Close button
Reject ==
  /\ Interactive
  /\ _settings' = IF treeCurrent # None /\ currentPage # None
                  THEN saveProperties(_settings, treeCurrent, pageProps)
                  ELSE _settings
  /\ result' = "rejected"
  /\ event' = Event("reject", None)
  /\ savedFile' = None
  /\ UNCHANGED <<cbox, templateType, treeCurrent, hidden, currentItem, currentPage,
                 pageProps, outputFilename>>
  /\ UNCHANGED <<lastTreeItemData, runEnabled, settingsVisible, progressVisible,
                 persisted, pc, dmVars, viewVars, coreVars>>

(***************************************************************************)
(* The embedded view (q3dview.py).                                         *)
(***************************************************************************)

\* at most this many layers are in the layer list
MaxLayers == 3

\* the layer lists getLayerList() can return: layers 1..n, each visible or not
LayerLists ==
  UNION { [1..n -> [layerId : {0}, visible : BOOLEAN]] : n \in 0..MaxLayers }

NumberLayers(list) == [i \in DOMAIN list |-> [list[i] EXCEPT !.layerId = i]]

\* the exportLayer calls of pageLoaded: one for each visible layer, in list order
RECURSIVE exportLayers(_)
exportLayers(layers) ==
  IF layers = <<>> THEN <<>>
  ELSE (IF layers[1].visible THEN <<<<"exportLayer", layers[1].layerId>>>> ELSE <<>>)
       \o exportLayers(Tail(layers))

\* pageLoaded that exports every layer of the list
pageLoaded_allLayers(enabled, layers) ==
  <<<<"runString", "pyObj.sendData.connect(this, dataReceived);">>,
    <<"startApplication">>>>
  \o (IF enabled
      THEN <<<<"exportScene">>>>
           \o [i \in DOMAIN layers |-> <<"exportLayer", layers[i].layerId>>]
      ELSE <<<<"setPreviewEnabled", FALSE>>>>)

\* pageLoaded(ok): the calls it makes, in order
pageLoaded(enabled, layers) ==
  <<<<"runString", "pyObj.sendData.connect(this, dataReceived);">>,
    <<"startApplication">>>>
  \o (IF enabled
      THEN <<<<"exportScene">>>> \o exportLayers(layers)
      ELSE <<<<"setPreviewEnabled", FALSE>>>>)

NoCalls == [layers |-> <<>>, trace |-> <<>>]

\* setup(wnd, iface, isViewer, enabled): stores the flags and sets the url
Setup(viewer, enabled) ==
  /\ viewState = "new"
  /\ isViewer' = viewer
  /\ _enabled' = enabled
  /\ viewState' = "loading"
  /\ UNCHANGED <<layerList, calls, dmVars, dlgVars, coreVars>>

\* reloadPage(): sets the url again
ReloadPage ==
  /\ viewState \in {"loading", "loaded"}
  /\ viewState' = "loading"
  /\ UNCHANGED <<_enabled, isViewer, layerList, calls, dmVars, dlgVars, coreVars>>

\* loadFinished(ok) arrives: pageLoaded(ok) runs
PageLoaded(ok) ==
  /\ viewState = "loading"
  /\ calls' = [layers |-> layerList, trace |-> pageLoaded(_enabled, layerList)]
  /\ viewState' = "loaded"
  /\ UNCHANGED <<_enabled, isViewer, layerList, dmVars, dlgVars, coreVars>>

\* the user shows or hides a layer in the layer tree of the window
SetLayerVisible(i, visible) ==
  /\ i \in DOMAIN layerList
  /\ layerList[i].visible # visible
  /\ layerList' = [layerList EXCEPT ![i].visible = visible]
  /\ UNCHANGED <<viewState, _enabled, isViewer, calls, dmVars, dlgVars, coreVars>>

(***************************************************************************)
(* Numbers: Python floats are modelled as exact fractions <<n, d>>, d > 0.  *)
(***************************************************************************)
RECURSIVE Gcd(_, _)
Gcd(a, b) == IF b = 0 THEN a ELSE Gcd(b, a % b)

Abs(a) == IF a < 0 THEN -a ELSE a

\* the fraction n / d in lowest terms, for d # 0
Frac(n, d) ==
  LET g == Gcd(Abs(n), Abs(d))
      sgn == IF d < 0 THEN -1 ELSE 1
  IN <<sgn * (n \div g), sgn * (d \div g)>>

Num(i) == <<i, 1>>

Plus(a, b) == Frac(a[1] * b[2] + b[1] * a[2], a[2] * b[2])

Minus(a, b) == Frac(a[1] * b[2] - b[1] * a[2], a[2] * b[2])

Times(a, b) == Frac(a[1] * b[1], a[2] * b[2])

\* a / b for b # 0; Python raises ZeroDivisionError for b = 0
Over(a, b) == Frac(a[1] * b[2], a[2] * b[1])

IsZero(a) == a[1] = 0

Half == <<1, 2>>

ZeroDivisionError == <<"ZeroDivisionError">>

(***************************************************************************)
(* RotatedRect (rotatedrect.py): a rectangle turned about its centre.       *)
(* Turns are by quarter turns, so that the arithmetic stays exact.         *)
(***************************************************************************)
\* the rotations of the map, in degrees
Rotations == {0, 90, 180, 270}

\* the number of quarter turns, 0 to 3, that a rotation by deg degrees makes
Quarters(deg) == (deg \div 90) % 4

\* RotatedRect.fromMapSettings: the unrotated rectangle and the rotation
fromMapSettings(ms) ==
  [xmin |-> Num(ms.extent[1]), ymin |-> Num(ms.extent[2]),
   width |-> Num(ms.extent[3]), height |-> Num(ms.extent[4]),
   rotation |-> ms.rotation]

center(rect) ==
  <<Plus(rect.xmin, Times(Half, rect.width)), Plus(rect.ymin, Times(Half, rect.height))>>

\* the point pt turned by deg degrees counter-clockwise about c
RECURSIVE rotatePoint(_, _, _)
rotatePoint(pt, deg, c) ==
  IF Quarters(deg) = 0 THEN pt
  ELSE rotatePoint(<<Minus(c[1], Minus(pt[2], c[2])), Plus(c[2], Minus(pt[1], c[1]))>>,
                   90 * (Quarters(deg) - 1), c)

\* RotatedRect.normalizePoint: the point turned back and scaled so that the
\* lower-left corner is (0, 0) and the upper-right (1, 1)
normalizePoint(rect, x, y) ==
  LET pt == rotatePoint(<<x, y>>, -rect.rotation, center(rect))
  IN IF IsZero(rect.width) \/ IsZero(rect.height) THEN ZeroDivisionError
     ELSE <<Over(Minus(pt[1], rect.xmin), rect.width),
            Over(Minus(pt[2], rect.ymin), rect.height)>>

\* RotatedRect.vertices: the four corners of the turned rectangle, from the
\* lower-left one counter-clockwise
vertices(rect) ==
  LET x0 == rect.xmin
      y0 == rect.ymin
      x1 == Plus(rect.xmin, rect.width)
      y1 == Plus(rect.ymin, rect.height)
  IN [i \in 1..4 |->
        rotatePoint(<<IF i \in {1, 4} THEN x0 ELSE x1, IF i \in {1, 2} THEN y0 ELSE y1>>,
                    rect.rotation, center(rect))]

(***************************************************************************)
(* MapTo3D and FlatDEMProvider (qgis2threejscore.py).                      *)
(***************************************************************************)
\* extents as <<xmin, ymin, width, height>>
Extents == {<<0, 0, 4, 2>>, <<-3, 5, 5, 5>>, <<1, 1, 0, 2>>, <<1, 1, 4, 0>>, <<2, 2, 0, 0>>}
OutputSizes == {<<4, 3>>, <<8, 8>>, <<0, 3>>}
PlaneWidths == {100, 7}
Exaggerations == {1, 2}
Shifts == {0, 1}
FlatValues == {10, 0}
MaxGrid == 3

MapSettingsInputs ==
  [extent : Extents, rotation : Rotations, outputSize : OutputSizes,
   planeWidth : PlaneWidths, verticalExaggeration : Exaggerations, verticalShift : Shifts]

\* planeWidth / self.mapExtent.width()
multiplierOf(planeWidth, rect) == Over(planeWidth, rect.width)

\* MapTo3D.__init__: the object, or the error the first division by zero raises
MapTo3D(ms) ==
  LET mapExtent == fromMapSettings(ms)
      canvas_size == ms.outputSize
      planeWidth == Num(ms.planeWidth)
  IN IF canvas_size[1] = 0 THEN ZeroDivisionError
     ELSE IF IsZero(mapExtent.width) THEN ZeroDivisionError
     ELSE <<"MapTo3D",
            [rotation |-> ms.rotation,
            mapExtent |-> mapExtent,
            planeWidth |-> planeWidth,
            planeHeight |-> Over(Times(planeWidth, Num(canvas_size[2])), Num(canvas_size[1])),
            verticalExaggeration |-> Num(ms.verticalExaggeration),
            verticalShift |-> Num(ms.verticalShift),
            multiplier |-> multiplierOf(planeWidth, mapExtent),
            multiplierZ |-> Times(multiplierOf(planeWidth, mapExtent),
                                  Num(ms.verticalExaggeration))]>>

\* the z of transform: (z + verticalShift) * multiplierZ
transformZ(self, z) == Times(Plus(z, self.verticalShift), self.multiplierZ)

\* the point scaled without being normalized: no division takes place
transform_unnormalized(self, x, y, z) ==
  <<Times(x, self.multiplier), Times(y, self.multiplier), transformZ(self, z)>>

\* the point with the plane's sizes not halved: n.x() * planeWidth and so on
transform_uncentered(self, x, y, z) ==
  LET n == normalizePoint(self.mapExtent, x, y)
  IN IF n = ZeroDivisionError THEN ZeroDivisionError
     ELSE <<Times(n[1], self.planeWidth), Times(n[2], self.planeHeight), transformZ(self, z)>>

\* MapTo3D.transform: the Point as <<x, y, z>>, or the error normalizePoint raises
transform(self, x, y, z) ==
  LET n == normalizePoint(self.mapExtent, x, y)
  IN IF n = ZeroDivisionError THEN ZeroDivisionError
     ELSE <<Times(Minus(n[1], Half), self.planeWidth),
            Times(Minus(n[2], Half), self.planeHeight),
            transformZ(self, z)>>

\* one row of samples only
read_oneRow(value, width, height, extent) == [i \in 1..width |-> value]

\* FlatDEMProvider.read: [self.value] * width * height
read(value, width, height, extent) == [i \in 1..(width * height) |-> value]

\* the points transform is called with: the corners of the extent and its centre,
\* at height 0 or 10
TransformPoints(rect) ==
  {<<p[1], p[2], Num(z)>> : p \in {vertices(rect)[i] : i \in 1..4} \cup {center(rect)},
                            z \in {0, 10}}

Construct ==
  /\ mapTo3d = None
  /\ mapTo3d' = MapTo3D(mapSettings)
  /\ UNCHANGED <<mapSettings, transformed, flatValue, samples, demVars, rndVars, dmVars,
                 dlgVars, viewVars>>

Transform ==
  /\ mapTo3d # None
  /\ mapTo3d # ZeroDivisionError
  /\ \E pt \in TransformPoints(mapTo3d[2].mapExtent) :
       transformed' = <<pt, transform(mapTo3d[2], pt[1], pt[2], pt[3])>>
  /\ UNCHANGED <<mapSettings, mapTo3d, flatValue, samples, demVars, rndVars, dmVars,
                 dlgVars, viewVars>>

FlatRead ==
  /\ \E width \in 0..MaxGrid, height \in 0..MaxGrid :
       samples' = <<width, height, read(flatValue, width, height, mapSettings.extent)>>
  /\ UNCHANGED <<mapSettings, mapTo3d, transformed, flatValue, demVars, rndVars, dmVars,
                 dlgVars, viewVars>>

NoMapTo3D ==
  /\ mapSettings = None
  /\ mapTo3d = None
  /\ transformed = None
  /\ flatValue = 0
  /\ samples = None

(***************************************************************************)
(* calculateDEMSize (qgis2threejscore.py).                                 *)
(***************************************************************************)
MaxSizeLevel == 2
MaxRoughening == 20

\* canvas sizes as <<width, height>>: square and oblong ones, small ones the
\* scale leaves alone, and one that is 10001 times as high as wide
CanvasSizes == {<<1, 10001>>, <<7, 1>>, <<17, 12>>, <<100, 100>>, <<101, 99>>,
                <<199, 199>>, <<400, 100>>, <<640, 480>>}

DemInputs ==
  [canvasSize : CanvasSizes, sizeLevel : 1..MaxSizeLevel, roughening : 0..MaxRoughening]

\* the largest k in lo..hi with k * k * d <= n, given lo * lo * d <= n
RECURSIVE FloorSqrt(_, _, _, _)
FloorSqrt(n, d, lo, hi) ==
  IF lo >= hi THEN lo
  ELSE LET mid == (lo + hi + 1) \div 2
       IN IF mid * mid * d <= n THEN FloorSqrt(n, d, mid, hi)
          ELSE FloorSqrt(n, d, lo, mid - 1)

\* s < 1 for s = (size * size / (width * height)) ** 0.5
ScaleBelowOne(width, height, size) == size * size < width * height

\* int(dim * s), dim being the width or the height and other the other one:
\* the floor of the square root of dim * size * size / other. Where that root
\* is a whole number k the floating-point product is k or just below it, and
\* int() gives k or k - 1 (199 * (10000 / 39601) ** 0.5 is 99.99999999999999)
ScaledDims(dim, other, size) ==
  LET k == FloorSqrt(dim * size * size, other, 0, dim)
  IN IF k > 0 /\ k * k * other = dim * size * size THEN {k - 1, k} ELSE {k}

\* the rounding up to a multiple done as it is meant: the smallest multiple of
\* roughening that is at least dim
roughen_ceiling(dim, roughening) ==
  IF dim % roughening # 0 THEN ((dim \div roughening) + 1) * roughening ELSE dim

\* the rounding without the test for a remainder
roughen_always(dim, roughening) == ((dim \div roughening) + 1) * roughening

\* int(dim / roughening + 0.9) * roughening when dim % roughening != 0: the
\* quotient goes up by one when the remainder is at least a tenth of roughening
roughen(dim, roughening) ==
  IF dim % roughening # 0
  THEN (IF 10 * (dim % roughening) >= roughening
        THEN (dim \div roughening) + 1 ELSE dim \div roughening) * roughening
  ELSE dim

\* the sizes calculateDEMSize can return, with the scaled width and height they
\* were rounded from
calculateDEMSize(canvasSize, sizeLevel, roughening) ==
  LET width == canvasSize[1]
      height == canvasSize[2]
      size == 100 * sizeLevel
      widths == IF ScaleBelowOne(width, height, size)
                THEN ScaledDims(width, height, size) ELSE {width}
      heights == IF ScaleBelowOne(width, height, size)
                 THEN ScaledDims(height, width, size) ELSE {height}
  IN {[scaled |-> <<w, h>>,
       size |-> IF roughening # 0
                THEN <<roughen(w, roughening) + 1, roughen(h, roughening) + 1>>
                ELSE <<w + 1, h + 1>>] : w \in widths, h \in heights}

CalculateDEMSize ==
  /\ demSize = None
  /\ demSize' \in {<<r>> : r \in calculateDEMSize(demArgs.canvasSize, demArgs.sizeLevel,
                                                   demArgs.roughening)}
  /\ UNCHANGED <<demArgs, m3dVars, rndVars, dmVars, dlgVars, viewVars>>

\* the map settings of the canvas, as an export run finds them
CanvasMapSettings ==
  [outputSize |-> CanvasSize, extent |-> unrotatedRect(BaseExtent), rotation |-> 0,
   layers |-> RenderLayers, backgroundColor |-> "white"]

\* nothing has been rendered
IdleRenderer ==
  /\ exportSettings = [mapSettings |-> CanvasMapSettings]
  /\ renders = <<>>

\* nothing of qgis2threejscore is in use
NoCore ==
  /\ demArgs = None
  /\ demSize = None
  /\ NoMapTo3D
  /\ IdleRenderer

\* no dialog is open
NoDialog ==
  /\ _settings = EmptyDict
  /\ cbox = -1
  /\ templateType = None
  /\ treeCurrent = None
  /\ hidden = [id \in Range(topItemIds) |-> FALSE]
  /\ currentItem = None
  /\ currentPage = None
  /\ pageProps = DefaultProps
  /\ outputFilename = ""
  /\ lastTreeItemData = None
  /\ runEnabled = TRUE
  /\ settingsVisible = TRUE
  /\ progressVisible = FALSE
  /\ persisted = None
  /\ result = "closed"
  /\ pc = "idle"
  /\ savedFile = None
  /\ event = Event("none", None)

\* no view is set up
NoView ==
  /\ viewState = "new"
  /\ _enabled = FALSE
  /\ isViewer = TRUE
  /\ layerList = <<>>
  /\ calls = NoCalls

InitManagers ==
  /\ imageList = <<>>
  /\ materialList = <<>>
  /\ modelList = <<>>
  /\ writtenCount = 0
  /\ collada = FALSE
  /\ matOut = <<>>
  /\ last = NoLast
  /\ hist = [issued |-> {}, seen |-> [image |-> <<>>, material |-> <<>>, model |-> <<>>]]

(***************************************************************************)
(* The data managers of one export run.                                    *)
(***************************************************************************)
InitDM == InitManagers /\ NoDialog /\ NoView /\ NoCore

\* the values the caller passes for lastTreeItemData
LastTreeItemDatas == {None, <<"v1">>}

\* Qgis2threejsDialog(iface, pluginManager): initTemplateList selects the last
\* used template, initObjectTree builds the tree, currentTemplateChanged
\* selects the first item
InitDlg ==
  /\ InitManagers
  /\ NoView
  /\ NoCore
  /\ lastTreeItemData \in LastTreeItemDatas
  /\ \E index \in 0..(Len(Templates) - 1) :
       LET d == currentTemplateChanged(
                  [settings |-> EmptyDict, cbox |-> index, templateType |-> None,
                   treeCurrent |-> None,
                   hidden |-> [id \in Range(topItemIds) |-> FALSE],
                   currentItem |-> None, currentPage |-> None,
                   pageProps |-> DefaultProps, outputFilename |-> ""],
                  lastTreeItemData)
       IN /\ _settings = d.settings
          /\ cbox = d.cbox
          /\ templateType = d.templateType
          /\ treeCurrent = d.treeCurrent
          /\ hidden = d.hidden
          /\ currentItem = d.currentItem
          /\ currentPage = d.currentPage
          /\ pageProps = d.pageProps
          /\ outputFilename = d.outputFilename
  /\ runEnabled = TRUE
  /\ settingsVisible = TRUE
  /\ progressVisible = FALSE
  /\ persisted = None
  /\ result = "open"
  /\ pc = "idle"
  /\ savedFile = None
  /\ event = Event("init", None)

\* Q3DView(parent), with the layer list of the window's settings
InitView ==
  /\ InitManagers
  /\ NoDialog
  /\ NoCore
  /\ viewState = "new"
  /\ _enabled = FALSE
  /\ isViewer = TRUE
  /\ layerList \in {NumberLayers(l) : l \in LayerLists}
  /\ calls = NoCalls

\* calculateDEMSize is about to be called with one of the inputs
InitDEM ==
  /\ InitManagers
  /\ NoDialog
  /\ NoView
  /\ demArgs \in DemInputs
  /\ demSize = None
  /\ NoMapTo3D
  /\ IdleRenderer

\* MapTo3D(...) is about to be called with one of the inputs, and a flat DEM
\* provider exists
InitMapTo3D ==
  /\ InitManagers
  /\ NoDialog
  /\ NoView
  /\ demArgs = None
  /\ demSize = None
  /\ mapSettings \in MapSettingsInputs
  /\ mapTo3d = None
  /\ transformed = None
  /\ flatValue \in FlatValues
  /\ samples = None
  /\ IdleRenderer

\* the hex colour and the colour name of the inputs
HexColor == <<"0", "x", "f", "f">>
NamedColor == <<"r", "e", "d">>

ImageRequests ==
  \/ \E path \in ImagePaths : ImageIndex(path)
  \/ \E tb \in BOOLEAN : CanvasImageIndex(tb)
  \/ \E g \in MapGeoms : MapImageIndex(g, FALSE)
  \/ \E ids \in LayerIdSets, g \in MapGeoms : LayerImageIndex(ids, g, TRUE)

MaterialRequests ==
  \/ \E c \in Colors, o \in Opacities : GetMeshLambertIndex(c, o, FALSE)
  \/ \E c \in Colors : GetSmoothMeshLambertIndex(c, 1, FALSE)
  \/ GetFlatMeshLambertIndex(HexColor, 1, TRUE)
  \/ GetLineBasicIndex(NamedColor, 0)
  \/ GetWireframeIndex(HexColor, 1)
  \/ GetCanvasImageIndex(1, TRUE)
  \/ \E g \in MapGeoms : GetMapImageIndex(g, 0, FALSE)
  \/ \E ids \in LayerIdSets, g \in MapGeoms : GetLayerImageIndex(ids, g, 1, TRUE)
  \/ \E path \in {"lost.png", "bad.png"} : GetImageFileIndex(path, 1, FALSE, FALSE)
  \/ GetSpriteIndex("tex.png", 1)

ModelRequests ==
  \E path \in ModelPaths, t \in ModelTypes : ModelIndex(path, t)

ImageOps ==
  \/ \E i \in 0..MaxEntries : Image(i)
  \/ \E i \in 0..MaxEntries : Base64image(i)
  \/ \E i \in 0..MaxEntries : ImageWrite(i, <<"img.png">>)
  \/ \E root \in PathRoots : ImageWriteAll(root)

MaterialOps ==
  \/ \E i \in 0..(MaxEntries - 1), fp \in FilePaths : MaterialBuild(i, fp)
  \/ \E root \in PathRoots : MaterialBuildAll(root)
  \/ MaterialWrite

ModelOps ==
  \/ ModelWrite
  \/ ModelScripts

\* index requests alone, on the three managers
NextIndex ==
  \/ ImageRequests
  \/ MaterialRequests
  \/ ModelRequests

\* the image and material managers of an export run
NextDM ==
  \/ ImageRequests
  \/ MaterialRequests
  \/ ImageOps
  \/ MaterialOps

\* the model manager of an export run
NextModel ==
  \/ ModelRequests
  \/ ModelOps

\* the tree, template and settings events of the export dialog
NextDlg ==
  \/ \E item \in Range(TreeItems) : SelectItem(item)
  \/ \E item \in Range(TreeItems) : ObjectItemChanged(item)
  \/ \E props \in PropValues : EditPage(props)
  \/ \E index \in 0..(Len(Templates) - 1) : SelectTemplate(index)
  \/ \E chosen \in {None} \cup {<<f>> : f \in LoadableFiles} : LoadSettings(chosen)
  \/ \E named \in BOOLEAN : SaveSettings(named)
  \/ \E ok \in BOOLEAN : ClearSettings(ok)

\* the export dialog from the Run button to its closing
NextRun ==
  \/ \E props \in PropValues : EditPage(props)
  \/ \E index \in 0..(Len(Templates) - 1) : SelectTemplate(index)
  \/ \E filename \in OutputFilenames : BrowseClicked(filename)
  \/ ClearOutputFilename
  \/ \E exists \in BOOLEAN, confirmed \in BOOLEAN, errMsg \in ErrMsgs :
       Run(exists, confirmed, errMsg)
  \/ \E percentage \in Percentages : Progress(percentage)
  \/ \E ret \in BOOLEAN, openOk \in BOOLEAN : RunReturns(ret, openOk)
  \/ Reject

\* the events of the embedded view
NextView ==
  \/ \E viewer \in BOOLEAN, enabled \in BOOLEAN : Setup(viewer, enabled)
  \/ ReloadPage
  \/ \E ok \in BOOLEAN : PageLoaded(ok)
  \/ \E i \in 1..MaxLayers, visible \in BOOLEAN : SetLayerVisible(i, visible)

vars == <<dmVars, dlgVars, viewVars, coreVars>>

SpecIndex == InitDM /\ [][NextIndex]_vars

SpecDM == InitDM /\ [][NextDM]_vars

SpecModel == InitDM /\ [][NextModel]_vars

SpecDlg == InitDlg /\ [][NextDlg]_vars

SpecRun == InitDlg /\ [][NextRun]_vars

SpecView == InitView /\ [][NextView]_vars

\* image-backed materials that differ in opacity or sidedness alone, built and
\* written in any order
NextMatImage ==
  \/ \E o \in Opacities : GetCanvasImageIndex(o, FALSE)
  \/ \E ds \in BOOLEAN : GetImageFileIndex("tex.png", 1, FALSE, ds)
  \/ \E g \in MapGeoms : GetMapImageIndex(g, 1, TRUE)
  \/ \E ids \in LayerIdSets, g \in MapGeoms : GetLayerImageIndex(ids, g, 0, FALSE)
  \/ \E o \in Opacities : GetSpriteIndex("tex.png", o)
  \/ \E i \in 0..(MaxEntries - 1), fp \in FilePaths : MaterialBuild(i, fp)
  \/ \E root \in PathRoots : MaterialBuildAll(root)
  \/ MaterialWrite

SpecMatImage == InitDM /\ [][NextMatImage]_vars

\* ImageManager.renderedImage called with its own arguments
RenderedImage(width, height, extent, transp_background, layerids) ==
  /\ LET r == renderedImageSettings(exportSettings.mapSettings, width, height, extent,
                                    transp_background, layerids) IN
       /\ renders' = <<r>>
       /\ exportSettings' = [exportSettings EXCEPT !.mapSettings = r.after]
  /\ last' = [NoLast EXCEPT !.op = "renderedImage", !.mgr = "image",
                            !.out = <<renderedImage(width, height, extent, transp_background,
                                                    layerids)>>]
  /\ UNCHANGED <<quietVars, imageList, materialList, modelList, writtenCount, collada, matOut,
                 hist>>

\* the sizes and extents asked of renderedImage, the layer subsets (None: all
\* layers of the settings) and the map settings an export can start with
RenderGeoms == MapGeoms \cup {<<8, 6, "E0">>}
RenderLayerIds == {None, <<"L1">>, <<"L2">>}
RenderMapSettings ==
  {[outputSize |-> CanvasSize, extent |-> unrotatedRect(e), rotation |-> r,
    layers |-> ls, backgroundColor |-> c] :
     e \in {BaseExtent, "E2"}, r \in {0, 15},
     ls \in {RenderLayers, SubSeq(RenderLayers, 1, 1)}, c \in {"white", "blue"}}

InitRender ==
  /\ InitManagers /\ NoDialog /\ NoView
  /\ demArgs = None /\ demSize = None /\ NoMapTo3D
  /\ exportSettings \in {[mapSettings |-> ms] : ms \in RenderMapSettings}
  /\ renders = <<>>

\* images requested and resolved one after another with one set of map settings
NextRender ==
  \/ ImageIndex("tex.png")
  \/ \E tb \in BOOLEAN : CanvasImageIndex(tb)
  \/ \E g \in MapGeoms, tb \in BOOLEAN : MapImageIndex(g, tb)
  \/ \E ids \in LayerIdSets, g \in RenderGeoms : LayerImageIndex(ids, g, TRUE)
  \/ \E i \in 0..MaxEntries : Image(i)
  \/ \E root \in PathRoots : ImageWriteAll(root)
  \/ \E g \in RenderGeoms, tb \in BOOLEAN, ids \in RenderLayerIds :
       RenderedImage(g[1], g[2], g[3], tb, ids)

SpecRender == InitRender /\ [][NextRender]_vars

NextDEM == CalculateDEMSize

SpecDEM == InitDEM /\ [][NextDEM]_vars

NextMapTo3D ==
  \/ Construct
  \/ Transform
  \/ FlatRead

SpecMapTo3D == InitMapTo3D /\ [][NextMapTo3D]_vars

(***************************************************************************)
(* Properties of the data managers.                                        *)
(***************************************************************************)
ListOf(mgr) ==
  IF mgr = "image" THEN imageList
  ELSE IF mgr = "material" THEN materialList
  ELSE modelList

Managers == {"image", "material", "model"}

IsRequest == last.op \notin {"none", "image", "base64image", "imageWrite", "imageWriteAll",
                             "build", "buildAll", "materialWrite", "modelWrite", "scripts"}

\* C1: on every manager, two requests of equal descriptors return the same
\* index; the entry count is the number of distinct descriptors requested, so it
\* grows by one on the first request of a descriptor (which returns the count
\* before the call) and by zero on every later request of it (which returns the
\* index of the entry that holds it).
C1_EqualDescriptorsShareIndex ==
  /\ \A a \in hist.issued : \A b \in hist.issued :
       (a[1] = b[1] /\ a[2] = b[2]) => a[3] = b[3]
  /\ \A mgr \in Managers : count(ListOf(mgr)) = Len(hist.seen[mgr])
  /\ IsRequest =>
       IF last.fresh
       THEN /\ count(ListOf(last.mgr)) = last.before + 1
            /\ last.ret = last.before
       ELSE /\ count(ListOf(last.mgr)) = last.before
            /\ last.ret < last.before
            /\ ListOf(last.mgr)[last.ret + 1] = last.data

\* C1 witness: after imageIndex(p), imageIndex(p), the request imageIndex(q)
\* returned a new index, the entry count before the call
C1_Witness ==
  /\ last.op = "imageIndex"
  /\ last.fresh
  /\ last.ret = 1
  /\ last.before = 1
  /\ Len(imageList) = 2

\* C2: the entry lists only grow by appending: every index ever returned is in
\* 0..count-1 and still resolves to the descriptor it was returned for, and each
\* list is the sequence of its descriptors in first-seen order, whatever image,
\* build, buildAll, write and writeAll calls came in between.
C2_AppendOnly ==
  /\ \A e \in hist.issued :
       /\ e[3] \in 0..(count(ListOf(e[1])) - 1)
       /\ ListOf(e[1])[e[3] + 1] = e[2]
  /\ \A mgr \in Managers : ListOf(mgr) = hist.seen[mgr]

\* C2 witness: a material write appended an image entry behind an earlier one
C2_Witness ==
  /\ last.op = "materialWrite"
  /\ writtenCount >= 1
  /\ Len(imageList) = 2
  /\ <<"image", imageList[1], 0>> \in hist.issued
  /\ <<"image", imageList[2], 1>> \in hist.issued

ModelIsFile(model) == PathKind(model[2]) = "file"

\* the models of the list, in order, whose path is no regular file
RECURSIVE NonFiles(_)
NonFiles(list) ==
  IF list = <<>> THEN <<>>
  ELSE (IF ModelIsFile(list[1]) THEN <<>> ELSE <<list[1]>>) \o NonFiles(Tail(list))

\* C10: ModelManager.write emits, after the header, exactly one
\* project.models[i] line for every registered model, in index order; the data
\* is null exactly when the path is missing or no regular file, one message is
\* logged for each such model, and the models after it are still written.
C10_ModelWriteNeverAborts ==
  (last.op = "modelWrite" /\ modelList # <<>>) =>
    /\ Len(last.out) = Len(modelList) + 1
    /\ last.out[1] = <<"// 3D model data">>
    /\ \A i \in 1..Len(modelList) :
         /\ last.out[i + 1][1] = "project.models"
         /\ last.out[i + 1][2] = i - 1
         /\ last.out[i + 1][3] = modelList[i][1]
         /\ (last.out[i + 1][4] = <<"null">>) <=> ~ModelIsFile(modelList[i])
    /\ Len(last.log) = Len(NonFiles(modelList))
    /\ \A k \in 1..Len(last.log) :
         /\ last.log[k][2] = NonFiles(modelList)[k][2]
         /\ last.log[k][3] = NonFiles(modelList)[k][1]

\* C10 witness: a write over a missing model followed by a model that is a file
C10_Witness ==
  /\ last.op = "modelWrite"
  /\ Len(modelList) = 2
  /\ PathKind(modelList[1][2]) = "none"
  /\ ModelIsFile(modelList[2])
  /\ last.out[3][4] # <<"null">>

(***************************************************************************)
(* Properties of the export dialog.                                        *)
(***************************************************************************)

\* the tree items whose key can hold the properties of a page
KeyedItems ==
  {TopItem(id) : id \in PagedItems}
    \cup {it \in Range(TreeItems) : parent(it) # None}
    \cup {<<ITEM_OPTDEM, StaleLayer>>}

LayerKeys == {ProjectLayers[i].id : i \in DOMAIN ProjectLayers} \cup {StaleLayer}

\* the handlers through which the current item of the tree changes with its
\* signal delivered
Navigation == {"currentObjectChanged", "objectItemChanged", "currentTemplateChanged"}

\* the mapping a step's commits go to: the loaded one when the step loads one
Loads(e) == e.name \in {"loadSettings", "clearSettings"} /\ e.arg # None

\* C3: when the selection changes from an item whose page is displayed, the
\* properties on that page are in the settings mapping under that item's key
\* (top-level id, or parent id then layer id) and the new item's page is set
\* up from the mapping afterwards; in every step, an entry of the mapping that
\* receives properties is the entry of the item whose page was displayed, and
\* it receives the properties of that page.
C3_CommitOnNavigate ==
  [][/\ (event'.name \in Navigation /\ treeCurrent' # treeCurrent
           /\ treeCurrent # None /\ currentPage # None)
          => PropertiesFor(_settings', treeCurrent) = <<pageProps>>
     /\ (event'.name \in Navigation /\ currentPage' # None)
          => pageProps' = IF treeCurrent' = treeCurrent THEN pageProps
                          ELSE setup(PropertiesFor(_settings', treeCurrent'))
     /\ LET base == IF Loads(event') THEN event'.arg[1] ELSE _settings IN
          \/ _settings' = base
          \/ \A item \in KeyedItems :
               LET entry == PropertiesFor(_settings', item) IN
               (entry # None /\ entry # PropertiesFor(base, item))
                 => /\ item = treeCurrent
                    /\ currentPage # None
                    /\ entry = <<pageProps>>
     /\ \A p \in LayerParents \cap DOMAIN _settings' :
          DOMAIN _settings'[p] \subseteq LayerKeys
    ]_vars

\* C3 witness: a click moved the selection from an item with a displayed page
\* to the raster layer; the mapping holds the edited properties of the DEM
\* item and the layer's page shows the layer's own, default, properties
C3_Witness ==
  /\ event.name = "currentObjectChanged"
  /\ event.arg = <<TRUE>>
  /\ treeCurrent = <<ITEM_OPTDEM, "r1">>
  /\ currentPage = <<PAGE_DEM>>
  /\ PropertiesFor(_settings, TopItem(ITEM_DEM)) = <<EditedProps>>
  /\ PropertiesFor(_settings, treeCurrent) = None
  /\ pageProps = DefaultProps

\* C7: while the dialog is open, a top-level item is hidden exactly when the
\* selected template is of type sphere and the item is not the controls item,
\* and with a sphere template selected the current item is the controls item.
C7_SphereHidesAllButControls ==
  result = "open" =>
    /\ \A id \in Range(topItemIds) :
         hidden[id] <=> (itemData(cbox) = <<"sphere">> /\ id # ITEM_CONTROLS)
    /\ itemData(cbox) = <<"sphere">> => treeCurrent = TopItem(ITEM_CONTROLS)

\* C7 witness: a settings file was loaded and the sphere template is selected
C7_Witness ==
  /\ event.name = "loadSettings"
  /\ event.arg # None
  /\ itemData(cbox) = <<"sphere">>
  /\ hidden[ITEM_DEM]
  /\ ~hidden[ITEM_CONTROLS]
  /\ treeCurrent = TopItem(ITEM_CONTROLS)

RunReturned == event.name = "run" /\ event.arg.returned

\* C4 as stated: when run() returns after the exporter ran, the Run button is
\* enabled, the settings button is visible and the progress bar is hidden.
C4_AllControlsRestored ==
  (RunReturned /\ event.arg.invoked) =>
    runEnabled /\ settingsVisible /\ ~progressVisible

\* C4: inside the exporter the Run button is disabled and the settings button
\* hidden; when run() returns after the exporter ran, the Run button is enabled
\* and the progress bar hidden, and the settings button is visible again
\* exactly when the dialog was not accepted.
C4_ControlsRestoredUnlessAccepted ==
  /\ pc = "exporting" => ~runEnabled /\ ~settingsVisible
  /\ (RunReturned /\ event.arg.invoked) =>
       /\ runEnabled
       /\ ~progressVisible
       /\ settingsVisible <=> result # "accepted"

\* C4 witness: the exporter reported failure and run() has returned
C4_Witness ==
  /\ RunReturned
  /\ event.arg.invoked
  /\ ~event.arg.ret
  /\ runEnabled
  /\ settingsVisible
  /\ ~progressVisible

\* C5: the exporter is invoked only if the output file does not exist or the
\* overwrite was confirmed, and checkValidity returned None; otherwise run()
\* has returned with the Run button enabled, the settings button visible,
\* QSettings as before, nothing opened and the dialog still open.
C5_GatesBeforeExport ==
  event.name = "run" =>
    /\ event.arg.invoked =>
         /\ ~event.arg.exists \/ event.arg.confirmed
         /\ event.arg.errMsg = None
    /\ ((event.arg.exists /\ ~event.arg.confirmed) \/ event.arg.errMsg # None) =>
         /\ ~event.arg.invoked
         /\ event.arg.returned
         /\ pc = "idle"
         /\ runEnabled
         /\ settingsVisible
         /\ ~progressVisible
         /\ persisted = event.arg.stored
         /\ ~event.arg.opened
         /\ result = "open"

\* C5 witness: checkValidity returned the empty message and run() returned
C5_Witness ==
  /\ event.name = "run"
  /\ event.arg.errMsg = <<"">>
  /\ ~event.arg.invoked
  /\ event.arg.returned
  /\ runEnabled

\* C6: QSettings is written and the artifact opened only after the exporter
\* returned success; after a failure QSettings is as before, nothing is opened
\* and the dialog is not accepted; the dialog is accepted exactly when the
\* export succeeded and the artifact was opened.
C6_PersistAndOpenOnSuccess ==
  /\ pc = "exporting" => persisted = event.arg.stored /\ result = "open"
  /\ (RunReturned /\ event.arg.invoked) =>
       /\ (persisted # event.arg.stored \/ event.arg.opened) => event.arg.ret
       /\ ~event.arg.ret =>
            persisted = event.arg.stored /\ ~event.arg.opened /\ result # "accepted"
       /\ event.arg.ret => persisted = <<LastSelections(_settings)>>
       /\ result = "accepted" <=> (event.arg.ret /\ event.arg.opened)

\* C6 witness: the export succeeded, the artifact could not be opened
C6_Witness ==
  /\ RunReturned
  /\ event.arg.ret
  /\ ~event.arg.opened
  /\ persisted # None
  /\ persisted # event.arg.stored
  /\ result = "open"

(***************************************************************************)
(* Properties of the embedded view.                                        *)
(***************************************************************************)

FirstPlace(trace, name) ==
  IF \E k \in DOMAIN trace : trace[k][1] = name
  THEN CHOOSE k \in DOMAIN trace :
         trace[k][1] = name /\ \A j \in 1..(k - 1) : trace[j][1] # name
  ELSE 0

\* C9: in the calls of a pageLoaded, startApplication comes before every
\* export; with the preview enabled exportScene is called once, before every
\* exportLayer, and exportLayer once for each visible layer and for no other;
\* with the preview disabled nothing is exported and setPreviewEnabled(False)
\* is called.
C9_PageLoadedExports ==
  calls # NoCalls =>
    LET t == calls.trace
        exports == {k \in DOMAIN t : t[k][1] \in {"exportScene", "exportLayer"}}
    IN /\ Cardinality({k \in DOMAIN t : t[k][1] = "startApplication"}) = 1
       /\ \A k \in exports : FirstPlace(t, "startApplication") < k
       /\ IF _enabled
          THEN /\ Cardinality({k \in DOMAIN t : t[k][1] = "exportScene"}) = 1
               /\ \A k \in DOMAIN t :
                    t[k][1] = "exportLayer" => FirstPlace(t, "exportScene") < k
               /\ \A i \in DOMAIN calls.layers :
                    Cardinality({k \in DOMAIN t :
                                   /\ t[k][1] = "exportLayer"
                                   /\ t[k][2] = calls.layers[i].layerId})
                      = IF calls.layers[i].visible THEN 1 ELSE 0
               /\ \A k \in DOMAIN t : t[k][1] # "setPreviewEnabled"
          ELSE /\ exports = {}
               /\ \E k \in DOMAIN t :
                    t[k][1] = "setPreviewEnabled" /\ t[k][2] = FALSE

\* C9 witness: a page load with the preview enabled over three layers of which
\* the second is not visible
C9_Witness ==
  /\ viewState = "loaded"
  /\ _enabled
  /\ Len(calls.layers) = 3
  /\ calls.layers[1].visible
  /\ ~calls.layers[2].visible
  /\ calls.layers[3].visible
  /\ Len(calls.trace) = 5
  /\ calls.trace[5] = <<"exportLayer", 3>>

(***************************************************************************)
(* Unavailable image files.                                                *)
(***************************************************************************)
\* an image-file descriptor whose file is missing or holds no readable image
Unavailable(img) ==
  /\ img[1] = IMG_IMAGE_FILE
  /\ ~(PathKind(img[2]) = "file" /\ Decodable(img[2]))

\* the descriptors the last image operation resolved, in order
ResolvedEntries ==
  IF last.op = "imageWriteAll" THEN imageList
  ELSE IF last.op \in {"image", "base64image", "imageWrite"}
  THEN <<imageList[last.ret + 1]>>
  ELSE IF last.op = "buildAll"
  THEN [k \in DOMAIN last.out |->
          imageList[MaterialImageIndex(imageList, materialList[last.out[k][1][3] + 1]).index + 1]]
  ELSE <<>>

\* the images the last image operation produced for them
ResolvedImages ==
  IF last.op = "imageWriteAll" THEN [k \in DOMAIN last.out |-> last.out[k][5]]
  ELSE IF last.op = "image" THEN last.out
  ELSE IF last.op \in {"base64image", "imageWrite"} THEN <<last.out[1][2]>>
  ELSE IF last.op = "buildAll" THEN [k \in DOMAIN last.out |-> last.out[k][2]]
  ELSE <<>>

\* C11: resolving an image-file descriptor whose file is unavailable (missing or
\* unreadable) never aborts: image, base64image, write, writeAll and buildAll
\* process every entry, each unavailable file yields the placeholder image, and
\* one warning is logged per unavailable file.
C11_UnavailableGivesPlaceholder ==
  /\ last.op = "imageWriteAll" => Len(last.out) = count(imageList)
  /\ last.op = "buildAll" => Len(last.data) = count(materialList)
  /\ Len(ResolvedImages) = Len(ResolvedEntries)
  /\ \A k \in DOMAIN ResolvedEntries :
       Unavailable(ResolvedEntries[k]) => ResolvedImages[k].kind = "placeholder"
  /\ last.op \in {"image", "base64image", "imageWrite", "imageWriteAll", "buildAll"}
       => Len(last.log)
            = Cardinality({k \in DOMAIN ResolvedEntries : Unavailable(ResolvedEntries[k])})

\* C11 for missing files alone: what the code does guarantee
C11_MissingGivesPlaceholder ==
  /\ last.op = "imageWriteAll" => Len(last.out) = count(imageList)
  /\ last.op = "buildAll" => Len(last.data) = count(materialList)
  /\ Len(ResolvedImages) = Len(ResolvedEntries)
  /\ \A k \in DOMAIN ResolvedEntries :
       /\ ResolvedEntries[k][1] = IMG_IMAGE_FILE
       /\ PathKind(ResolvedEntries[k][2]) # "file"
       => ResolvedImages[k].kind = "placeholder"

\* C11 witness: writeAll over a list that holds an unreadable image file and
\* another entry saved both, the first as a null image, and logged nothing
C11_Witness ==
  /\ last.op = "imageWriteAll"
  /\ count(imageList) = 2
  /\ imageList[1] = <<IMG_IMAGE_FILE, "bad.png">>
  /\ Len(last.out) = 2
  /\ last.out[1][5].kind = "null"
  /\ last.log = <<>>

(***************************************************************************)
(* The Collada loader.                                                     *)
(***************************************************************************)
HasCollada(list) == \E i \in DOMAIN list : list[i][1] = "COLLADA"

LoaderReported == scripts(collada) # <<>> /\ filesToCopy(collada) # <<>>

\* C12: in every reachable state of a ModelManager the Collada loader is
\* reported by scripts() and by filesToCopy() if and only if an entry of type
\* COLLADA is in the model list, and once reported it stays reported.
C12_LoaderIffCollada ==
  /\ [](/\ LoaderReported <=> HasCollada(modelList)
        /\ scripts(collada) # <<>> <=> filesToCopy(collada) # <<>>)
  /\ [][LoaderReported => LoaderReported']_vars

\* C12 witness: scripts() reported the loader for a list whose Collada entry is
\* followed by a JSON entry
C12_Witness ==
  /\ last.op = "scripts"
  /\ last.out[1] = <<"threejs/loaders/ColladaLoader.js">>
  /\ last.out[2] # <<>>
  /\ Len(modelList) = 2
  /\ modelList[1][1] = "COLLADA"
  /\ modelList[2][1] = "JSON"

(***************************************************************************)
(* Material types as build and write emit them.                            *)
(***************************************************************************)
AgreedKeys == {"type", "t", "w", "flat", "o", "ds"}

Restrict(m, keys) == [k \in (DOMAIN m) \cap keys |-> m[k]]

\* the aliasing the claim describes, for the dictionary m emitted for mat
Aliased(mat, m) ==
  /\ mat[1] = WIREFRAME
       => m["type"] = MESH_LAMBERT /\ "w" \in DOMAIN m /\ m["w"] = 1 /\ "flat" \notin DOMAIN m
  /\ mat[1] = MESH_LAMBERT_FLAT
       => m["type"] = MESH_LAMBERT /\ "flat" \in DOMAIN m /\ m["flat"] = 1 /\ "w" \notin DOMAIN m
  /\ mat[1] \in {MAT_CANVAS_IMAGE, MAT_MAP_IMAGE, MAT_LAYER_IMAGE, MAT_IMAGE_FILE}
       => m["type"] = MESH_PHONG
  /\ mat[1] \notin {WIREFRAME, MESH_LAMBERT_FLAT, MAT_CANVAS_IMAGE, MAT_MAP_IMAGE,
                    MAT_LAYER_IMAGE, MAT_IMAGE_FILE}
       => m["type"] = mat[1]
  /\ mat[1] \notin {WIREFRAME, MESH_LAMBERT_FLAT}
       => "w" \notin DOMAIN m /\ "flat" \notin DOMAIN m

\* C13: for every material descriptor build and write emit the type through the
\* same aliasing (wireframe and flat Lambert become Lambert with exactly the w
\* resp. flat flag, the four image-backed types become Phong, every other type
\* is unchanged), and the two agree on type, t, w, flat, o and ds.
C13_BuildWriteAgree ==
  /\ \A i \in 1..Len(materialList) :
       LET mat == materialList[i]
           b == build(materialList, imageList, i - 1, None, None).m
           w == writeOne(mat, imageList).m
       IN /\ Aliased(mat, b)
          /\ Aliased(mat, w)
          /\ Restrict(b, AgreedKeys) = Restrict(w, AgreedKeys)
  /\ last.op = "materialWrite" =>
       \A k \in DOMAIN last.out :
         LET index == last.out[k][2]
             b == build(materialList, imageList, index, None, None).m
         IN /\ Aliased(materialList[index + 1], last.out[k][3])
            /\ Restrict(last.out[k][3], AgreedKeys) = Restrict(b, AgreedKeys)

\* C13 witness: write emitted a flat Lambert material and a layer-image
\* material, as Lambert with the flat flag and as Phong
C13_Witness ==
  /\ last.op = "materialWrite"
  /\ Len(last.out) = 2
  /\ materialList[1][1] = MESH_LAMBERT_FLAT
  /\ materialList[2][1] = MAT_LAYER_IMAGE
  /\ last.out[1][3]["type"] = MESH_LAMBERT
  /\ last.out[1][3]["flat"] = 1
  /\ last.out[2][3]["type"] = MESH_PHONG
  /\ "t" \in DOMAIN last.out[2][3]

(***************************************************************************)
(* The error colour.                                                       *)
(***************************************************************************)
ColourTypes == {MESH_LAMBERT, MESH_LAMBERT_SMOOTH, MESH_LAMBERT_FLAT, LINE_BASIC, WIREFRAME}

ColourRequests == {"getMeshLambertIndex", "getSmoothMeshLambertIndex",
                   "getFlatMeshLambertIndex", "getLineBasicIndex", "getWireframeIndex"}

StartsWith0x(color) == Len(color) >= 2 /\ color[1] = "0" /\ color[2] = "x"

InvalidColors == {c \in Colors : ~StartsWith0x(c)}

\* C14: a colour-based material request replaces a colour that does not start
\* with "0x" by the error colour before the descriptor is built: a stored
\* colour descriptor holds a colour starting with "0x" or the error colour, and
\* two requests with such colours and the same type, opacity and sidedness get
\* one index and one stored descriptor.
C14_InvalidColourFallback ==
  /\ \A i \in 1..Len(materialList) :
       materialList[i][1] \in ColourTypes
         => StartsWith0x(materialList[i][2]) \/ materialList[i][2] = ERROR_COLOR
  /\ last.op \in ColourRequests
       => /\ materialList[last.ret + 1] = last.data
          /\ StartsWith0x(last.data[2]) \/ last.data[2] = ERROR_COLOR
  /\ \A type \in ColourTypes, c1 \in InvalidColors, c2 \in InvalidColors,
        opacity \in Opacities, doubleSide \in BOOLEAN :
       LET r1 == _indexCol(materialList, type, c1, opacity, doubleSide)
           r2 == _indexCol(r1.list, type, c2, opacity, doubleSide)
       IN /\ r1.data = <<type, ERROR_COLOR, opacity, doubleSide>>
          /\ r2.index = r1.index
          /\ r2.list = r1.list

\* C14 witness: a line request with a colour name stored the error colour next
\* to a Lambert descriptor that holds it too
C14_Witness ==
  /\ last.op = "getLineBasicIndex"
  /\ last.ret = 1
  /\ Cardinality(InvalidColors) >= 2
  /\ materialList = <<<<MESH_LAMBERT, ERROR_COLOR, 1, FALSE>>,
                      <<LINE_BASIC, ERROR_COLOR, 0, FALSE>>>>

(***************************************************************************)
(* Properties of calculateDEMSize.                                         *)
(***************************************************************************)
DemReturned == demSize # None

\* the returned width (i = 1) or height (i = 2) before the final + 1
Grid(i) == demSize[1].size[i] - 1

\* C15: for a canvas of positive width and height, a size level >= 1 and a
\* roughening >= 0, the returned width and height are each at least 2.
C15_AtLeastTwo ==
  DemReturned => \A i \in {1, 2} : demSize[1].size[i] >= 2

\* C15 witness: a canvas 1 wide and 10001 high at level 1 is scaled to width
\* int(0.99995) = 0 and comes back 1 wide
C15_Witness ==
  /\ DemReturned
  /\ demArgs = [canvasSize |-> <<1, 10001>>, sizeLevel |-> 1, roughening |-> 0]
  /\ demSize[1].scaled = <<0, 10000>>
  /\ demSize[1].size = <<1, 10001>>

\* C16 as stated: the returned grid, before the final + 1, is no wider and no
\* taller than the canvas.
C16_NeverUpsamples ==
  DemReturned => \A i \in {1, 2} : Grid(i) <= demArgs.canvasSize[i]

\* C16: the scale step never upsamples (the scaled width and height are the
\* canvas's when the factor is not below 1 and no larger otherwise);
\* without roughening the returned grid is the scaled one, and with roughening
\* r it differs from the scaled one by less than r, upwards or downwards.
C16_ScaleNeverUpsamples ==
  DemReturned =>
    \A i \in {1, 2} :
      LET d == demSize[1].scaled[i]
          r == demArgs.roughening
      IN /\ d <= demArgs.canvasSize[i]
         /\ ~ScaleBelowOne(demArgs.canvasSize[1], demArgs.canvasSize[2],
                           100 * demArgs.sizeLevel)
              => d = demArgs.canvasSize[i]
         /\ r = 0 => Grid(i) = d
         /\ r > 0 => Grid(i) < d + r /\ Grid(i) > d - r
         /\ r > 0 /\ d % r = 0 => Grid(i) = d

\* C16 witness: a canvas 7 wide that the scale leaves alone comes back with a
\* grid 8 wide for roughening 4
C16_Witness ==
  /\ DemReturned
  /\ demArgs = [canvasSize |-> <<7, 1>>, sizeLevel |-> 1, roughening |-> 4]
  /\ demSize[1].scaled = <<7, 1>>
  /\ demSize[1].size = <<9, 5>>

\* C17: for a roughening r > 0 each scaled dimension d is replaced by the
\* smallest multiple of r that is >= d (unchanged if already a multiple,
\* rounded up otherwise, never down) before 1 is added.
C17_SmallestMultipleAbove ==
  DemReturned /\ demArgs.roughening > 0 =>
    \A i \in {1, 2} :
      LET d == demSize[1].scaled[i]
          r == demArgs.roughening
      IN /\ Grid(i) % r = 0
         /\ Grid(i) >= d
         /\ Grid(i) = roughen_ceiling(d, r)

\* what holds of the rounding: the result is a multiple of r, a multiple is
\* unchanged, and the result is the smallest multiple >= d when the remainder
\* of d is at least r / 10, the largest multiple <= d otherwise
C17_MultipleOfRoughening ==
  DemReturned /\ demArgs.roughening > 0 =>
    \A i \in {1, 2} :
      LET d == demSize[1].scaled[i]
          r == demArgs.roughening
      IN /\ Grid(i) % r = 0
         /\ d % r = 0 => Grid(i) = d
         /\ 10 * (d % r) >= r => Grid(i) = roughen_ceiling(d, r)
         /\ d % r # 0 /\ 10 * (d % r) < r => Grid(i) = d - (d % r)

\* C17 witness: width 17 with roughening 16 is rounded down to 16
C17_Witness ==
  /\ DemReturned
  /\ demArgs = [canvasSize |-> <<17, 12>>, sizeLevel |-> 1, roughening |-> 16]
  /\ demSize[1].scaled = <<17, 12>>
  /\ demSize[1].size = <<17, 17>>

(***************************************************************************)
(* Properties of MapTo3D and FlatDEMProvider.                              *)
(***************************************************************************)
Constructed == mapTo3d # None /\ mapTo3d # ZeroDivisionError

\* the corner of the plane that corner i of the extent belongs to, counted from
\* the lower-left one counter-clockwise
PlaneCorner(i) ==
  LET planeWidth == Num(mapSettings.planeWidth)
      planeHeight == Over(Times(planeWidth, Num(mapSettings.outputSize[2])),
                          Num(mapSettings.outputSize[1]))
  IN <<Times(IF i \in {1, 4} THEN Num(-1) ELSE Num(1), Over(planeWidth, Num(2))),
       Times(IF i \in {1, 2} THEN Num(-1) ELSE Num(1), Over(planeHeight, Num(2)))>>

\* C18: for every extent with an area, rotation, canvas size and plane width,
\* transform maps the four corners of the extent to the four corners
\* (+/- planeWidth / 2, +/- planeHeight / 2) of the plane, where planeHeight is
\* planeWidth * canvasHeight / canvasWidth.
C18_CornersToPlaneCorners ==
  Constructed /\ mapSettings.extent[4] # 0 =>
    LET self == mapTo3d[2]
        v == vertices(self.mapExtent)
    IN /\ \A i \in 1..4 :
            LET p == transform(self, v[i][1], v[i][2], Num(0))
            IN <<p[1], p[2]>> = PlaneCorner(i)
       /\ transformed # None =>
            \A i \in 1..4 :
              <<transformed[1][1], transformed[1][2]>> = v[i]
                => <<transformed[2][1], transformed[2][2]>> = PlaneCorner(i)

\* C18 witness: on a canvas of 4 x 3 and a plane 100 wide, the upper-right corner
\* of the extent (-3, 5)..(2, 10) turned by 90 degrees was mapped to (50, 75/2)
C18_Witness ==
  /\ Constructed
  /\ mapSettings.extent = <<-3, 5, 5, 5>>
  /\ mapSettings.rotation = 90
  /\ mapSettings.outputSize = <<4, 3>>
  /\ mapSettings.planeWidth = 100
  /\ transformed # None
  /\ <<transformed[1][1], transformed[1][2]>> = vertices(mapTo3d[2].mapExtent)[3]
  /\ <<transformed[2][1], transformed[2][2]>> = <<<<50, 1>>, <<75, 2>>>>

ZeroExtentOrCanvas ==
  mapSettings.extent[3] = 0 \/ mapSettings.extent[4] = 0 \/ mapSettings.outputSize[1] = 0

\* C19: over an extent of width zero or height zero, or a canvas of width zero,
\* constructing a MapTo3D or calling its transform raises ZeroDivisionError,
\* and no transform call returns a point.
C19_ZeroExtentFailsFast ==
  mapSettings # None /\ ZeroExtentOrCanvas =>
    /\ mapTo3d # None /\ (mapSettings.extent[3] = 0 \/ mapSettings.outputSize[1] = 0)
         => mapTo3d = ZeroDivisionError
    /\ Constructed =>
         \A pt \in TransformPoints(mapTo3d[2].mapExtent) :
           transform(mapTo3d[2], pt[1], pt[2], pt[3]) = ZeroDivisionError
    /\ transformed # None => transformed[2] = ZeroDivisionError

\* C19 witness: a MapTo3D was constructed over an extent of height zero and its
\* transform raised
C19_Witness ==
  /\ mapSettings.extent = <<1, 1, 4, 0>>
  /\ Constructed
  /\ transformed # None
  /\ transformed[2] = ZeroDivisionError

\* the scenario of the claim: value 10, exaggeration 2, shift 1
FlatScenario ==
  /\ flatValue = 10
  /\ mapSettings.verticalExaggeration = 2
  /\ mapSettings.verticalShift = 1

\* C20 as stated: with value 10, exaggeration 2 and shift 1, read returns
\* width * height samples each equal to (10 + 1) * verticalMultiplier.
C20_ReadReturnsTransformed ==
  samples # None /\ Constructed /\ FlatScenario =>
    /\ Len(samples[3]) = samples[1] * samples[2]
    /\ \A i \in DOMAIN samples[3] :
         Num(samples[3][i]) = Times(Num(10 + 1), mapTo3d[2].multiplierZ)

\* C20: read returns width * height samples each equal to the provider's value
\* (10 in the scenario), whatever the extent and the transform; it is transform
\* that maps such a sample, given as z, to (10 + 1) * verticalMultiplier.
C20_ReadReturnsValue ==
  /\ samples # None =>
       /\ Len(samples[3]) = samples[1] * samples[2]
       /\ \A i \in DOMAIN samples[3] : samples[3][i] = flatValue
  /\ samples # None /\ Constructed /\ FlatScenario =>
       \A i \in DOMAIN samples[3] :
         transformZ(mapTo3d[2], Num(samples[3][i]))
           = Times(Num(10 + 1), mapTo3d[2].multiplierZ)
  /\ transformed # None /\ transformed[2] # ZeroDivisionError =>
       transformed[2][3]
         = Times(Plus(transformed[1][3], Num(mapSettings.verticalShift)),
                 Times(Over(Num(mapSettings.planeWidth), Num(mapSettings.extent[3])),
                       Num(mapSettings.verticalExaggeration)))

\* C20 witness: in the scenario, with a plane 100 wide over an extent 4 wide
\* (vertical multiplier 50), read(2, 3, extent) returned six samples of 10
C20_Witness ==
  /\ Constructed
  /\ FlatScenario
  /\ mapSettings.planeWidth = 100
  /\ mapSettings.extent = <<0, 0, 4, 2>>
  /\ mapTo3d[2].multiplierZ = Num(50)
  /\ samples = <<2, 3, <<10, 10, 10, 10, 10, 10>>>>

(***************************************************************************)
(* The material lines written to the output stream.                        *)
(***************************************************************************)
\* line k of the stream is the assignment to lyr.m[k - 1], and it shows the
\* material stored at that index
EmittedInOrder ==
  \A k \in DOMAIN matOut :
    /\ matOut[k][1] = "lyr.m"
    /\ matOut[k][2] = k - 1
    /\ k <= Len(materialList)
    /\ matOut[k][3]["type"] = toMaterialType(materialList[k][1])

\* C21: across any interleaving of material index requests and write calls,
\* each material index is emitted once, in increasing order without a gap, and
\* no later write emits it again; writtenCount never exceeds the entry count
\* and equals it right after every write.
C21_EachMaterialWrittenOnce ==
  /\ [](/\ EmittedInOrder
        /\ Len(matOut) = writtenCount
        /\ writtenCount <= count(materialList)
        /\ last.op = "materialWrite" => writtenCount = count(materialList))
  /\ [][/\ Len(matOut') >= Len(matOut)
        /\ SubSeq(matOut', 1, Len(matOut)) = matOut
        /\ writtenCount' >= writtenCount]_vars

\* C21 witness: a write, a further request and a second write: the second
\* write emitted index 1 alone, after index 0
C21_Witness ==
  /\ last.op = "materialWrite"
  /\ last.before = 1
  /\ Len(last.out) = 1
  /\ last.out[1][2] = 1
  /\ Len(matOut) = 2
  /\ writtenCount = 2

(***************************************************************************)
(* Image-backed materials and the image list.                              *)
(***************************************************************************)
ImageMaterials == {i \in 1..Len(materialList) : materialList[i][1] \in ImageBacked}

IsPrefix(short, long) ==
  Len(short) <= Len(long) /\ SubSeq(long, 1, Len(short)) = short

\* materials that differ in nothing but opacity and sidedness
SameButOpacityAndSide(mat1, mat2) == mat1[1] = mat2[1] /\ mat1[2] = mat2[2]

\* C22: the first build or write of an image-backed material adds at most one
\* image entry; every later build or write of it adds none and refers to the
\* same image index; two materials that differ in opacity or sidedness alone
\* refer to the same image index.
C22_ImageResolutionIdempotent ==
  /\ [](\A i \in ImageMaterials :
          LET mat == materialList[i]
              b1 == build(materialList, imageList, i - 1, None, None)
              w1 == writeOne(mat, imageList)
              b2 == build(materialList, w1.images, i - 1, None, None)
              w2 == writeOne(mat, b1.images)
          IN /\ IsPrefix(imageList, b1.images) /\ Len(b1.images) <= Len(imageList) + 1
             /\ IsPrefix(imageList, w1.images) /\ Len(w1.images) <= Len(imageList) + 1
             /\ b1.images = w1.images
             /\ b1.reqs[1][2] = w1.m["i"]
             /\ b2.images = w1.images /\ b2.reqs[1][2] = w1.m["i"]
             /\ w2.images = b1.images /\ w2.m["i"] = b1.reqs[1][2]
             /\ \A j \in ImageMaterials :
                  SameButOpacityAndSide(mat, materialList[j])
                    => LET bj == build(materialList, b1.images, j - 1, None, None)
                           wj == writeOne(materialList[j], b1.images)
                       IN /\ bj.images = b1.images /\ bj.reqs[1][2] = b1.reqs[1][2]
                          /\ wj.images = b1.images /\ wj.m["i"] = b1.reqs[1][2])
  /\ [][/\ last'.op = "build" /\ (last'.ret + 1) \in ImageMaterials
             => /\ IsPrefix(imageList, imageList')
                /\ Len(imageList') <= Len(imageList) + 1
                /\ MaterialImageIndex(imageList, materialList[last'.ret + 1]).data
                       \in Range(imageList)
                     => imageList' = imageList
        /\ last'.op = "materialWrite"
             => /\ IsPrefix(imageList, imageList')
                /\ \A k \in DOMAIN last'.out :
                     "i" \in DOMAIN last'.out[k][3]
                       => imageList'[last'.out[k][3]["i"] + 1]
                            = writeImageIndex(imageList, materialList[last'.out[k][2] + 1]).data
                /\ (\A i \in ImageMaterials :
                      writeImageIndex(imageList, materialList[i]).data \in Range(imageList))
                     => imageList' = imageList]_vars

\* C22 witness: two image-file materials that differ in sidedness were written
\* with the same image index, and the image list holds the one image
C22_Witness ==
  /\ last.op = "materialWrite"
  /\ Len(last.out) = 2
  /\ materialList[1][1] = MAT_IMAGE_FILE
  /\ materialList[2][1] = MAT_IMAGE_FILE
  /\ materialList[1][4] # materialList[2][4]
  /\ last.out[1][3]["i"] = 0
  /\ last.out[2][3]["i"] = 0
  /\ imageList = <<<<IMG_IMAGE_FILE, "tex.png">>>>

\* C23: renderedImage leaves the shared map settings as it found them.  Every
\* renderedImage call of every image operation, whatever the size, extent,
\* background flag and layer subset it renders with, returns with the output
\* size, extent, rotation, layers and background colour the settings had when
\* it was called, and so each call of a sequence starts with the settings the
\* sequence started with, and the operation leaves the settings unchanged.
SameSettings(a, b) ==
  /\ a.outputSize = b.outputSize
  /\ a.extent = b.extent
  /\ a.rotation = b.rotation
  /\ a.layers = b.layers
  /\ a.backgroundColor = b.backgroundColor

C23_RenderedImageRestoresSettings ==
  /\ [](\A i \in DOMAIN renders :
          /\ SameSettings(renders[i].after, renders[i].before)
          /\ SameSettings(renders[i].before, exportSettings.mapSettings))
  /\ [][SameSettings(exportSettings'.mapSettings, exportSettings.mapSettings)]_vars

\* a sequence of two renders whose second one rendered another size, extent,
\* rotation, layer set and background than the settings hold
C23_Witness ==
  /\ Len(renders) >= 2
  /\ LET r == renders[Len(renders)] IN
       /\ r.job.outputSize # r.before.outputSize
       /\ r.job.extent # r.before.extent
       /\ r.job.rotation # r.before.rotation
       /\ r.job.layers # r.before.layers
       /\ r.job.backgroundColor # r.before.backgroundColor
       /\ SameSettings(r.after, r.before)

====
